---- MODULE Spec2Model ----
(***************************************************************************)
(* diffware: the fileset comparison engine (helpers/fileset_comparator.py) *)
(* over file handles (files/generic.py), as a state machine.               *)
(*                                                                         *)
(* A handle is an object of the heap `obj`; its address is a pair          *)
(* <<k, name>>: k = 1, 2 for the handles the lister created for the first  *)
(* and the second collection, k = 3 for the objects that come back         *)
(* unpickled from the worker pool of moved_file_pairs.                     *)
(***************************************************************************)
EXTENDS Integers, Sequences, FiniteSets, TLC

\* ------------------------------------------------------------------ bounds

\* files per input collection
MaxFiles == 2
\* largest distance tlsh.diff returns in the model
MaxTlsh == 2
\* largest file size (bytes) seen by the byte-diff fallback
MaxSize == 1
\* largest length of the `cmp -l` report
MaxDiffLen == 1

\* ------------------------------------------------------- the environment

RelNames == {"a", "b", "c"}
Root(k) == IF k = 1 THEN <<"r1">> ELSE <<"r2">>

\* The "full" descriptions the type detector may return, as token lists.
FileTypes == {<<"ELF", "64-bit">>, <<"symbolic", "link">>, <<"ASCII", "text">>}

\* values config.update may give to fuzzy_threshold
Thresholds == {-1, 0, 2}

Null == <<0, "">>

\* the caller holds no generator yet
NoGen == [phase |-> "none", todo |-> {}, pos |-> 1, out |-> <<>>]

Max(a, b) == IF a >= b THEN a ELSE b

\* F applied to the value of v, v being evaluated once
Bind(v, F(_)) == CHOOSE r \in {F(x) : x \in {v}} : TRUE

\* -------------------------------------------------------------- variables

VARIABLES
    file_set1,      \* FilesetComparator.file_set1
    file_set2,      \* FilesetComparator.file_set2
    config,         \* the Config shared by the comparator
    obj,            \* the heap of UnpackedFile objects
    cache,          \* the comparator's cached properties (<<>> = not computed)
    fs,             \* file types the detector has reported so far, per path
    pairs,          \* the caller's generator, from get_files_to_compare
    hist,           \* what move detection read and computed (history)
    env,            \* what a single call runs on: the disk, the arguments
    ret             \* what that call returned and did

vars == <<file_set1, file_set2, config, obj, cache, fs, pairs, hist, env, ret>>

\* --------------------------------------------------- files/generic.py

\* UnpackedFile.__init__
UnpackedFile(path, data_folder) ==
    [path |-> path, _data_folder |-> data_folder, cls |-> "UnpackedFile",
     type |-> <<>>, _match |-> Null]

\* UnpackedFile.relative_path: path.relative_to(data_folder)
relative_path(f) == SubSeq(f.path, Len(f._data_folder) + 1, Len(f.path))

\* UnpackedFile.__hash__
hash(f) == relative_path(f)

\* UnpackedFile.__eq__, the result
eq_result(o, a, b) == relative_path(o[a]) = relative_path(o[b])

\* __eq__ recording each file as its own match
eq_effect_self(o, a, b) ==
    IF eq_result(o, a, b)
    THEN [o EXCEPT ![a]._match = a, ![b]._match = b]
    ELSE o

\* UnpackedFile.__eq__, the heap after a.__eq__(b)
eq_effect(o, a, b) ==
    IF eq_result(o, a, b)
    THEN [o EXCEPT ![a]._match = b, ![b]._match = a]
    ELSE o

\* The pairs of distinct objects a set operation between A and B compares
\* with __eq__: same hash, not the same object.
Compared(o, A, B) ==
    {pr \in A \X B : pr[1] # pr[2] /\ hash(o[pr[1]]) = hash(o[pr[2]])}

RECURSIVE EqAll(_, _)
EqAll(o, prs) ==
    IF prs = {} THEN o
    ELSE Bind(CHOOSE x \in prs : TRUE, LAMBDA pr :
         Bind(eq_effect(o, pr[1], pr[2]), LAMBDA o1 : EqAll(o1, prs \ {pr})))

\* Python's A - B on sets of handles: the value and the heap after the
\* __eq__ calls the lookups make.
SetDifference(o, A, B) ==
    [val |-> {a \in A : ~ \E b \in B : a = b \/ eq_result(o, a, b)},
     obj |-> EqAll(o, Compared(o, A, B))]

\* Python's set(seq): elements are added in order, an element equal to one
\* already in the set is dropped after the __eq__ call that finds it.
RECURSIVE SetOf(_, _, _)
SetOf(o, seq, acc) ==
    IF seq = <<>> THEN [val |-> acc, obj |-> o]
    ELSE LET x == Head(seq)
             dup == {y \in acc : y = x \/ eq_result(o, y, x)}
         IN IF dup = {} THEN SetOf(o, Tail(seq), acc \cup {x})
            ELSE Bind(EqAll(o, {<<y, x>> : y \in dup \ {x}}), LAMBDA o1 :
                      SetOf(o1, Tail(seq), acc))

\* ------------------------------------------- files/__init__.py, elf.py, symlink.py

\* files.FILE_TYPES, in order
FILE_TYPES == <<"ElfFile", "SymlinkFile">>

\* cls.recognizes(file_type): recognize_regex.match(file_type["full"]);
\* ElfFile: ^ELF\s, SymlinkFile: symbolic link, UnpackedFile: .*
recognizes(cls, full) ==
    CASE cls = "ElfFile" -> Len(full) >= 2 /\ full[1] = "ELF"
      [] cls = "SymlinkFile" -> Len(full) >= 2 /\ full[1] = "symbolic" /\ full[2] = "link"
      [] OTHER -> TRUE

\* helpers/utils.py get_file_type: what the detector says of the file at
\* `path`; t is what it will say of the files not looked at yet.
get_file_type(s, t, path) ==
    IF path \in DOMAIN s.fs THEN s.fs[path] ELSE t[path]

\* UnpackedFile.type (cached_property): the state after reading file.type
read_type(s, t, h) ==
    IF s.obj[h].type # <<>> THEN s
    ELSE LET full == get_file_type(s, t, s.obj[h].path)
         IN [s EXCEPT !.obj[h].type = <<full>>,
                      !.fs = (s.obj[h].path :> full) @@ s.fs]

\* ------------------------------------------- helpers/fileset_comparator.py

\* The flag never read
specialize_always == TRUE

\* self.config.specialize, as _specialize and _specialize_file read it
specialize_enabled == config.specialize

\* _specialize_file building a fresh object of the variant
_specialize_file_rebuild(s, t, h) ==
    IF ~ specialize_enabled THEN s
    ELSE Bind(read_type(s, t, h), LAMBDA s1 :
         LET hits == {i \in 1..Len(FILE_TYPES) :
                        recognizes(FILE_TYPES[i], s1.obj[h].type[1])}
         IN IF hits = {} THEN s1
            ELSE LET first == CHOOSE i \in hits : \A j \in hits : i <= j
                 IN [s1 EXCEPT !.obj[h] =
                        [UnpackedFile(s1.obj[h].path, s1.obj[h]._data_folder)
                            EXCEPT !.cls = FILE_TYPES[first],
                                   !.type = s1.obj[h].type]])

\* FilesetComparator._specialize_file
_specialize_file(s, t, h) ==
    IF ~ specialize_enabled THEN s
    ELSE Bind(read_type(s, t, h), LAMBDA s1 :
         LET hits == {i \in 1..Len(FILE_TYPES) :
                        recognizes(FILE_TYPES[i], s1.obj[h].type[1])}
         IN IF hits = {} THEN s1
            ELSE LET first == CHOOSE i \in hits : \A j \in hits : i <= j
                 IN [s1 EXCEPT !.obj[h].cls = FILE_TYPES[first]])

RECURSIVE SpecializeAll(_, _, _)
SpecializeAll(s, t, file_set) ==
    IF file_set = {} THEN s
    ELSE Bind(CHOOSE x \in file_set : TRUE, LAMBDA h :
         Bind(_specialize_file(s, t, h), LAMBDA s1 :
              SpecializeAll(s1, t, file_set \ {h})))

\* FilesetComparator._specialize: the state after it (the set it returns
\* holds the same objects as file_set)
_specialize(s, t, file_set) ==
    IF ~ specialize_enabled THEN s
    ELSE SpecializeAll(s, t, file_set)

\* _common_files keeping the elements of file_set2
_common_files_of_set2(s, t) ==
    IF s.cache.common # <<>> THEN s
    ELSE Bind(SetDifference(s.obj, file_set2, file_set1), LAMBDA diff :
         Bind(SetDifference(diff.obj, file_set2, diff.val), LAMBDA comm :
         Bind(_specialize([s EXCEPT !.obj = comm.obj], t, comm.val), LAMBDA s1 :
              [s1 EXCEPT !.cache.common = <<comm.val>>])))

\* FilesetComparator._common_files (cached_property)
_common_files(s, t) ==
    IF s.cache.common # <<>> THEN s
    ELSE Bind(SetDifference(s.obj, file_set1, file_set2), LAMBDA diff :
         Bind(SetDifference(diff.obj, file_set1, diff.val), LAMBDA comm :
         Bind(_specialize([s EXCEPT !.obj = comm.obj], t, comm.val), LAMBDA s1 :
              [s1 EXCEPT !.cache.common = <<comm.val>>])))

\* FilesetComparator._missing_files (cached_property)
_missing_files(s, t) ==
    IF s.cache.missing # <<>> THEN s
    ELSE Bind(_common_files(s, t), LAMBDA s0 :
         Bind(SetDifference(s0.obj, file_set1, s0.cache.common[1]), LAMBDA miss :
         Bind(_specialize([s0 EXCEPT !.obj = miss.obj], t, miss.val), LAMBDA s1 :
              [s1 EXCEPT !.cache.missing = <<miss.val>>])))

\* FilesetComparator._new_files (cached_property)
_new_files(s, t) ==
    IF s.cache.new # <<>> THEN s
    ELSE Bind(_common_files(s, t), LAMBDA s0 :
         Bind(SetDifference(s0.obj, file_set2, s0.cache.common[1]), LAMBDA new :
         Bind(_specialize([s0 EXCEPT !.obj = new.obj], t, new.val), LAMBDA s1 :
              [s1 EXCEPT !.cache.new = <<new.val>>])))

\* compute_distance without the minimum of 1
compute_distance_noclamp(hash1, hash2, tlsh_diff, file_size, diff_len) ==
    IF hash1 /\ hash2 THEN tlsh_diff
    ELSE (10 * diff_len) \div Max(1, file_size)

\* compute_distance rounding to the nearest integer
compute_distance_round(hash1, hash2, tlsh_diff, file_size, diff_len) ==
    IF hash1 /\ hash2 THEN tlsh_diff
    ELSE Max((2 * 10 * diff_len + Max(1, file_size))
                 \div (2 * Max(1, file_size)), 1)

\* helpers/utils.py compute_distance: tlsh.diff of the two fuzzy hashes when
\* both are defined (tlsh.diff raises TypeError on None), else the size of
\* the `cmp -l` report scaled by the larger file size, at least 1.
compute_distance(hash1, hash2, tlsh_diff, file_size, diff_len) ==
    IF hash1 /\ hash2 THEN tlsh_diff
    ELSE Max((10 * diff_len) \div Max(1, file_size), 1)

\* The distances compute_distance can return for a pair, given which of the
\* two fuzzy hashes are defined.
ScoreRange(hash1, hash2) ==
    {compute_distance(hash1, hash2, d, sz, n) :
        d \in 0..MaxTlsh, sz \in 0..MaxSize, n \in 0..MaxDiffLen}

\* No class filter
_files_classes_match_any(o, file1, file2) == TRUE

\* FilesetComparator._files_classes_match
_files_classes_match(o, file1, file2) == o[file1].cls = o[file2].cls

\* The (score, f) list _match_file builds from the shuffled file_set
RECURSIVE Comparisons(_, _, _, _)
Comparisons(o, file, file_set, e) ==
    IF file_set = <<>> THEN <<>>
    ELSE LET f == Head(file_set)
             rest == Comparisons(o, file, Tail(file_set), e)
         IN IF ~ _files_classes_match(o, file, f) THEN rest
            ELSE <<<<e.scores[<<file, f>>], f>>>> \o rest

\* comparisons.sort(key=itemgetter(0)); comparisons[0]: the sort is stable,
\* so the head is the first entry of least score.
SortedHead(comparisons) ==
    comparisons[CHOOSE i \in 1..Len(comparisons) :
        \A j \in 1..Len(comparisons) :
            /\ comparisons[i][1] <= comparisons[j][1]
            /\ j < i => comparisons[j][1] > comparisons[i][1]]

\* _match_file accepting a score equal to the threshold
_match_file_le(o, file, file_set, e) ==
    LET comparisons == Comparisons(o, file, file_set, e)
    IN IF comparisons = <<>> THEN Null
       ELSE LET best == SortedHead(comparisons)
            IN IF best[1] <= config.fuzzy_threshold THEN best[2] ELSE Null

\* FilesetComparator._match_file, in a pool worker whose heap is o:
\* the matched file or Null
_match_file(o, file, file_set, e) ==
    LET comparisons == Comparisons(o, file, file_set, e)
    IN IF comparisons = <<>> THEN Null
       ELSE LET best == SortedHead(comparisons)
            IN IF best[1] < config.fuzzy_threshold THEN best[2] ELSE Null

\* The subsequence of seq whose elements are in S
RECURSIVE Restrict(_, _)
Restrict(seq, S) ==
    IF seq = <<>> THEN <<>>
    ELSE IF Head(seq) \in S THEN <<Head(seq)>> \o Restrict(Tail(seq), S)
    ELSE Restrict(Tail(seq), S)

Orderings(S) ==
    {q \in [1..Cardinality(S) -> S] : \A i, j \in DOMAIN q : i # j => q[i] # q[j]}

\* The pairs whose distance the workers compute, and the files whose
\* fuzzy_hash they read
ComputedPairs(o, M, N) ==
    {pr \in M \X N : _files_classes_match(o, pr[1], pr[2])}

\* Address of the object unpickled from the result of the task of source m
CopyOf(m) == <<3, m[2]>>

\* The moved list built from pool.map's results (lines 118-121)
RECURSIVE MovedList(_, _)
MovedList(files, matched) ==
    IF files = <<>> THEN <<>>
    ELSE IF matched[Head(files)] # Null
    THEN <<<<Head(files), CopyOf(Head(files))>>>> \o MovedList(Tail(files), matched)
    ELSE MovedList(Tail(files), matched)

\* moved_file_pairs from line 112 on: s1 is the comparator once
\* list(self._missing_files) is evaluated, w its pickled copy in the
\* workers once they have evaluated self._new_files.
DetectMoves(s1, w, e) ==
    LET M == s1.cache.missing[1]
        N == w.cache.new[1]
        files == Restrict(e.order, M)
    IN Bind([m \in M |-> _match_file(w.obj, m, Restrict(e.shuffle[m], N), e)],
            LAMBDA matched :
       LET copies == [c \in {CopyOf(m) : m \in {x \in M : matched[x] # Null}} |->
                        w.obj[matched[<<1, c[2]>>]]]
           computed == ComputedPairs(w.obj, M, N)
       IN [s1 EXCEPT !.obj = copies @@ s1.obj,
                     !.fs = w.fs,
                     !.cache.moved = <<MovedList(files, matched)>>,
                     !.hist.threshold = <<config.fuzzy_threshold>>,
                     !.hist.scores = [pr \in computed |-> e.scores[pr]],
                     !.hist.hashes =
                         [h \in {pr[1] : pr \in computed} \cup {pr[2] : pr \in computed}
                            |-> e.hashes[h]]])

\* Move detection disabled by a negative threshold only
fuzzy_disabled_lt == config.fuzzy_threshold < 0

\* The test that turns move detection off (line 109)
fuzzy_disabled == config.fuzzy_threshold <= 0

\* moved_file_pairs testing the threshold before looking at what is cached
moved_file_pairs_uncached(s, t, e) ==
    IF fuzzy_disabled
    THEN [s EXCEPT !.cache.moved = << <<>> >>,
                   !.hist.threshold = <<config.fuzzy_threshold>>]
    ELSE IF s.cache.moved # <<>> THEN s
    ELSE Bind(_missing_files(s, t), LAMBDA s1 :
         Bind(_new_files(s1, t), LAMBDA w : DetectMoves(s1, w, e)))

\* FilesetComparator.moved_file_pairs (cached_property).  e is what the run
\* draws from outside: e.order the iteration order of the set of missing
\* files, e.shuffle[m] the order random.shuffle leaves, e.hashes whether a
\* file has a fuzzy hash, e.scores the distances.
moved_file_pairs(s, t, e) ==
    IF s.cache.moved # <<>> THEN s
    ELSE IF fuzzy_disabled
    THEN [s EXCEPT !.cache.moved = << <<>> >>,
                   !.hist.threshold = <<config.fuzzy_threshold>>]
    ELSE Bind(_missing_files(s, t), LAMBDA s1 :
         Bind(_new_files(s1, t), LAMBDA w : DetectMoves(s1, w, e)))

\* The first (k = 1) or second (k = 2) files of the moved pairs
Side(moved, k) == [i \in 1..Len(moved) |-> moved[i][k]]

\* FilesetComparator.removed_files (cached_property)
removed_files(s, t, e) ==
    IF s.cache.removed # <<>> THEN s
    ELSE Bind(moved_file_pairs(s, t, e), LAMBDA s1 :
         Bind(_missing_files(s1, t), LAMBDA s2 :
         Bind(SetOf(s2.obj, Side(s1.cache.moved[1], 1), {}), LAMBDA ms :
         Bind(SetDifference(ms.obj, s2.cache.missing[1], ms.val), LAMBDA rem :
              [s2 EXCEPT !.obj = rem.obj, !.cache.removed = <<rem.val>>]))))

\* added_files taking the first files of the moved pairs
added_files_sources(s, t, e) ==
    IF s.cache.added # <<>> THEN s
    ELSE Bind(moved_file_pairs(s, t, e), LAMBDA s1 :
         Bind(_new_files(s1, t), LAMBDA s2 :
         Bind(SetOf(s2.obj, Side(s1.cache.moved[1], 1), {}), LAMBDA ms :
         Bind(SetDifference(ms.obj, s2.cache.new[1], ms.val), LAMBDA add :
              [s2 EXCEPT !.obj = add.obj, !.cache.added = <<add.val>>]))))

\* FilesetComparator.added_files (cached_property)
added_files(s, t, e) ==
    IF s.cache.added # <<>> THEN s
    ELSE Bind(moved_file_pairs(s, t, e), LAMBDA s1 :
         Bind(_new_files(s1, t), LAMBDA s2 :
         Bind(SetOf(s2.obj, Side(s1.cache.moved[1], 2), {}), LAMBDA ms :
         Bind(SetDifference(ms.obj, s2.cache.new[1], ms.val), LAMBDA add :
              [s2 EXCEPT !.obj = add.obj, !.cache.added = <<add.val>>]))))

\* FilesetComparator.get_files_to_compare up to the return (lines 47-81)
get_files_to_compare(s, t, e) ==
    Bind(_common_files(s, t), LAMBDA s1 :
    Bind(_new_files(s1, t), LAMBDA s2 :
    Bind(_missing_files(s2, t), LAMBDA s3 : moved_file_pairs(s3, t, e))))

\* ------------------------------------------------------------------ Init

Handle(k, n) == <<k, n>>

Init ==
    \E S1 \in SUBSET RelNames, S2 \in SUBSET RelNames :
        /\ Cardinality(S1) <= MaxFiles
        /\ Cardinality(S2) <= MaxFiles
        /\ file_set1 = {Handle(1, n) : n \in S1}
        /\ file_set2 = {Handle(2, n) : n \in S2}
        /\ obj = [h \in {Handle(1, n) : n \in S1} \cup {Handle(2, n) : n \in S2} |->
                    UnpackedFile(Root(h[1]) \o <<h[2]>>, Root(h[1]))]
        /\ \E s \in BOOLEAN, v \in Thresholds :
               /\ config = [fuzzy_threshold |-> v, specialize |-> s]
               /\ hist = [threshold |-> <<>>, scores |-> <<>>, hashes |-> <<>>]
        /\ cache = [common |-> <<>>, missing |-> <<>>, new |-> <<>>,
                    moved |-> <<>>, removed |-> <<>>, added |-> <<>>]
        /\ fs = <<>>
        /\ pairs = NoGen
        /\ env = <<>>
        /\ ret = <<>>

\* ------------------------------------------------------------------ steps

\* The comparator's mutable state as one value, and its write-back
St == [obj |-> obj, cache |-> cache, fs |-> fs, hist |-> hist]

Store(s) == /\ obj' = s.obj
            /\ cache' = s.cache
            /\ fs' = s.fs
            /\ hist' = s.hist

\* What the type detector may say of the files it has not been asked about
TypeOracles ==
    IF specialize_enabled
    THEN [{obj[h].path : h \in file_set1 \cup file_set2} \ DOMAIN fs -> FileTypes]
    ELSE {<<>>}

AllScores == ScoreRange(TRUE, TRUE) \cup ScoreRange(FALSE, FALSE)

NoOracle == [order |-> <<>>, shuffle |-> <<>>, hashes |-> <<>>, scores |-> <<>>]

\* What a run of move detection from state s may draw from outside
MoveOracles(s, t) ==
    IF s.cache.moved # <<>> \/ fuzzy_disabled THEN {NoOracle}
    ELSE Bind(_missing_files(s, t), LAMBDA s1 :
         Bind(_new_files(s1, t), LAMBDA w :
         Bind(ComputedPairs(w.obj, s1.cache.missing[1], w.cache.new[1]), LAMBDA computed :
         LET M == s1.cache.missing[1]
             N == w.cache.new[1]
             read == {pr[1] : pr \in computed} \cup {pr[2] : pr \in computed}
         IN {e \in [order : Orderings(M), shuffle : [M -> Orderings(N)],
                    hashes : [read -> BOOLEAN], scores : [computed -> AllScores]] :
                \A pr \in computed :
                    e.scores[pr] \in ScoreRange(e.hashes[pr[1]], e.hashes[pr[2]])})))

\* A generator object of _get_matching_pairs, not started; out is what it
\* has yielded so far
NewGen == [phase |-> "new", todo |-> {}, pos |-> 1, out |-> <<>>]

\* pairs = comparator.get_files_to_compare()
GetFilesToCompare ==
    /\ \E t \in TypeOracles :
         \E e \in MoveOracles(St, t) :
            \E r \in {get_files_to_compare(St, t, e)} : Store(r)
    /\ pairs' = NewGen
    /\ UNCHANGED <<file_set1, file_set2, config, env, ret>>

\* comparator.added_files
AddedFiles ==
    /\ \E t \in TypeOracles :
         \E e \in MoveOracles(St, t) :
            \E r \in {added_files(St, t, e)} : Store(r)
    /\ UNCHANGED <<file_set1, file_set2, config, pairs, env, ret>>

\* comparator.removed_files
RemovedFiles ==
    /\ \E t \in TypeOracles :
         \E e \in MoveOracles(St, t) :
            \E r \in {removed_files(St, t, e)} : Store(r)
    /\ UNCHANGED <<file_set1, file_set2, config, pairs, env, ret>>

\* The common files the generator has still to go through
Todo == IF pairs.phase = "new" THEN cache.common[1] ELSE pairs.todo

\* The loop yielding the counterpart as __eq__ left it
GenNextCommon_raw ==
    /\ pairs.phase \in {"new", "common"}
    /\ \E file \in Todo :
         pairs' = [pairs EXCEPT
                     !.phase = "common",
                     !.todo = Todo \ {file},
                     !.out = Append(@, <<file, obj[file]._match>>)]
    /\ UNCHANGED <<file_set1, file_set2, config, obj, cache, fs, hist, env, ret>>

\* next(pairs) in the loop over the common files (lines 139-142):
\* specialize the counterpart, yield the pair
GenNextCommon ==
    /\ pairs.phase \in {"new", "common"}
    /\ \E file \in Todo :
         \E t \in TypeOracles :
            \E s1 \in {_specialize_file(St, t, obj[file]._match)} :
               /\ Store(s1)
               /\ pairs' = [pairs EXCEPT
                     !.phase = "common",
                     !.todo = Todo \ {file},
                     !.out = Append(@, <<file, obj[file]._match>>)]
    /\ UNCHANGED <<file_set1, file_set2, config, env, ret>>

\* next(pairs) once the common files are exhausted (line 144): yield the
\* next moved pair, or stop
GenNextMoved ==
    /\ pairs.phase \in {"new", "common", "moved"}
    /\ Todo = {}
    /\ LET moved == cache.moved[1]
       IN pairs' = IF pairs.pos <= Len(moved)
                   THEN [pairs EXCEPT !.phase = "moved", !.pos = @ + 1,
                                      !.out = Append(@, moved[pairs.pos])]
                   ELSE [pairs EXCEPT !.phase = "done"]
    /\ UNCHANGED <<file_set1, file_set2, config, obj, cache, fs, hist, env, ret>>

\* config.update("fuzzy_threshold", v)  (helpers/config.py, tests/test_compare.py)
UpdateThreshold ==
    /\ \E v \in Thresholds :
         /\ v # config.fuzzy_threshold
         /\ config' = [config EXCEPT !.fuzzy_threshold = v]
    /\ UNCHANGED <<file_set1, file_set2, obj, cache, fs, pairs, hist, env, ret>>

Next ==
    \/ GetFilesToCompare
    \/ AddedFiles
    \/ RemovedFiles
    \/ GenNextCommon
    \/ GenNextMoved
    \/ UpdateThreshold


Spec == Init /\ [][Next]_vars

\* ------------------------------------------------------------------ claims

SameRel(a, b) == relative_path(obj[a]) = relative_path(obj[b])

\* The set1 handles whose relative path occurs / does not occur in set2,
\* and the set2 handles whose relative path does not occur in set1
InBoth == {a \in file_set1 : \E b \in file_set2 : SameRel(a, b)}
OnlyIn1 == {a \in file_set1 : ~ \E b \in file_set2 : SameRel(a, b)}
OnlyIn2 == {b \in file_set2 : ~ \E a \in file_set1 : SameRel(a, b)}

Computed(c) == c # <<>>
Moved == cache.moved[1]
MovedSet == {Moved[i] : i \in 1..Len(Moved)}
Sources == {pr[1] : pr \in MovedSet}
Targets == {pr[2] : pr \in MovedSet}

\* C1: Common is exactly the set1 handles whose relative path occurs in
\* set2, Missing the set1 handles whose relative path does not, New the set2
\* handles whose relative path does not occur in set1; Common and Missing
\* partition set1.  Nothing but the paths enters.
C1_Partition ==
    /\ Computed(cache.common) => cache.common[1] = InBoth
    /\ Computed(cache.missing) =>
          /\ cache.missing[1] = OnlyIn1
          /\ cache.common[1] \cap cache.missing[1] = {}
          /\ cache.common[1] \cup cache.missing[1] = file_set1
    /\ Computed(cache.new) => cache.new[1] = OnlyIn2

C1_Witness ==
    /\ Computed(cache.common) /\ Computed(cache.missing) /\ Computed(cache.new)
    /\ cache.common[1] # {} /\ cache.missing[1] # {} /\ cache.new[1] # {}
    /\ \E a \in cache.common[1] : obj[a].type # obj[obj[a]._match].type

\* The pairs (a, b) of a set1 handle and the set2 handle of the same
\* relative path
CommonPairs == {pr \in file_set1 \X file_set2 : SameRel(pr[1], pr[2])}

\* C2: the generator yields only pairs (a, b) of a Common file and its set2
\* counterpart and accepted moved pairs, none twice, and once it is
\* exhausted it has yielded one pair per Common file and one per moved pair.
C2_Pairs ==
    pairs.phase # "none" =>
        /\ \A i \in 1..Len(pairs.out) : pairs.out[i] \in CommonPairs \cup MovedSet
        /\ \A i, j \in 1..Len(pairs.out) : i # j => pairs.out[i] # pairs.out[j]
        /\ pairs.phase = "done" =>
              Len(pairs.out) = Cardinality(cache.common[1]) + Len(Moved)

C2_Witness ==
    /\ pairs.phase = "done"
    /\ \E i, j \in 1..Len(pairs.out) :
          /\ pairs.out[i] \in CommonPairs
          /\ pairs.out[j] \in MovedSet
          /\ obj[pairs.out[i][1]].type # obj[pairs.out[i][2]].type

\* C3: Removed is the Missing files that are no source of a moved pair,
\* Added the New files that are the target of no moved pair; every Missing
\* file is in Removed or the source of exactly one moved pair, never both,
\* and every New file is in Added or the target of a moved pair.
C3_AddedRemoved ==
    /\ Computed(cache.removed) =>
          /\ cache.removed[1] = cache.missing[1] \ Sources
          /\ \A m \in cache.missing[1] :
                Cardinality({i \in 1..Len(Moved) : Moved[i][1] = m})
                    = IF m \in cache.removed[1] THEN 0 ELSE 1
    /\ Computed(cache.added) =>
          /\ cache.added[1] =
                {n \in cache.new[1] : ~ \E c \in Targets : SameRel(n, c)}
          /\ \A n \in cache.new[1] :
                n \in cache.added[1] \/ \E c \in Targets : SameRel(n, c)

C3_Witness ==
    /\ Computed(cache.removed) /\ Computed(cache.added)
    /\ cache.removed[1] # {} /\ cache.removed[1] # cache.missing[1]
    /\ cache.added[1] # cache.new[1]

\* C4: when the fuzzy threshold read by the first request of the moved pairs
\* is <= 0, the moved list is empty, no distance is computed, the generator
\* yields Common pairs only, Added is New and Removed is Missing.
C4_Disabled ==
    (Computed(hist.threshold) /\ hist.threshold[1] <= 0) =>
        /\ Moved = <<>>
        /\ hist.scores = <<>> /\ hist.hashes = <<>>
        /\ \A i \in 1..Len(pairs.out) : pairs.out[i] \in CommonPairs
        /\ Computed(cache.added) => cache.added[1] = cache.new[1]
        /\ Computed(cache.removed) => cache.removed[1] = cache.missing[1]

C4_Witness ==
    /\ Computed(hist.threshold) /\ hist.threshold[1] <= 0
    /\ config.fuzzy_threshold > 0
    /\ Computed(cache.added) /\ Computed(cache.removed)
    /\ cache.added[1] # {} /\ cache.removed[1] # {}
    /\ \E a \in cache.removed[1], b \in cache.added[1] : obj[a].cls = obj[b].cls
    /\ pairs.phase = "done"

\* The candidates of a Missing file m whose distance to m was computed
Candidates(m) == {n \in cache.new[1] : <<m, n>> \in DOMAIN hist.scores}
MinScore(m) ==
    CHOOSE d \in {hist.scores[<<m, n>>] : n \in Candidates(m)} :
        \A n \in Candidates(m) : d <= hist.scores[<<m, n>>]

\* C5: a Missing file is the source of a moved pair exactly when it has
\* candidates and the least distance to them is strictly less than the
\* threshold read by move detection; the target is then a candidate at that
\* distance.
C5_Threshold ==
    (Computed(hist.threshold) /\ hist.threshold[1] > 0 /\ Computed(cache.new)) =>
        \A m \in cache.missing[1] :
            /\ m \in Sources <=>
                  (Candidates(m) # {} /\ MinScore(m) < hist.threshold[1])
            /\ \A pr \in MovedSet : pr[1] = m =>
                  \E n \in Candidates(m) :
                      /\ SameRel(n, pr[2])
                      /\ hist.scores[<<m, n>>] = MinScore(m)

C5_Witness ==
    /\ Computed(hist.threshold) /\ Computed(cache.new) /\ Computed(cache.missing)
    /\ \E m \in cache.missing[1] :
          /\ m \in Sources
          /\ Cardinality(cache.missing[1]) = 1 /\ Cardinality(cache.new[1]) = 1
          /\ MinScore(m) = hist.threshold[1] - 1

\* C6: the two files of every moved pair have the same variant (class).
C6_SameClass ==
    Computed(cache.moved) =>
        \A pr \in MovedSet : obj[pr[1]].cls = obj[pr[2]].cls

C6_Witness ==
    /\ Computed(cache.moved) /\ Computed(cache.new)
    /\ \E pr \in MovedSet :
          /\ obj[pr[1]].cls = "ElfFile"
          /\ \E n \in cache.new[1] : obj[n].cls # "ElfFile"

\* C7: the source of every moved pair has a defined fuzzy hash.
C7_SourceHasHash ==
    Computed(cache.moved) =>
        \A pr \in MovedSet : pr[1] \in DOMAIN hist.hashes /\ hist.hashes[pr[1]]

\* The variant the detector's answer selects: ELF, else Symlink, else Generic
ExpectedVariant(full) ==
    IF full[1] = "ELF" THEN "ElfFile"
    ELSE IF full[1] = "symbolic" /\ full[2] = "link" THEN "SymlinkFile"
    ELSE "UnpackedFile"

\* C8: with specialization enabled, both files of every yielded pair have
\* their type read from the detector and the variant that type selects.
C8_Specialized ==
    config.specialize =>
        \A i \in 1..Len(pairs.out) : \A k \in {1, 2} :
            LET f == obj[pairs.out[i][k]]
            IN /\ f.type # <<>>
               /\ f.type[1] = fs[f.path]
               /\ f.cls = ExpectedVariant(f.type[1])

C8_Witness ==
    /\ config.specialize
    /\ pairs.phase = "done"
    /\ \E i, j \in 1..Len(pairs.out) :
          /\ pairs.out[i] \in CommonPairs
          /\ obj[pairs.out[i][1]].cls = "SymlinkFile"
          /\ obj[pairs.out[i][2]].cls = "ElfFile"
          /\ pairs.out[j] \in MovedSet

\* C9: with specialization disabled every handle stays a generic
\* UnpackedFile and the detector is never asked.
C9_Generic ==
    ~ config.specialize =>
        /\ \A h \in DOMAIN obj : obj[h].cls = "UnpackedFile" /\ obj[h].type = <<>>
        /\ fs = <<>>

C9_Witness ==
    /\ ~ config.specialize
    /\ pairs.phase = "done"
    /\ \E i, j \in 1..Len(pairs.out) :
          pairs.out[i] \in CommonPairs /\ pairs.out[j] \in MovedSet
    /\ Computed(cache.added) /\ Computed(cache.removed)

\* C10: specializing any handle of any reachable state keeps the same
\* objects, and of every object the path, the root folder, the relative
\* path and the recorded match; only the specialized handle's variant and
\* cached type may change.
C10_SpecializeFrame ==
    \A h \in DOMAIN obj : \A t \in TypeOracles :
        LET r == _specialize_file(St, t, h)
        IN /\ DOMAIN r.obj = DOMAIN obj
           /\ r.cache = cache
           /\ \A g \in DOMAIN obj :
                 /\ r.obj[g].path = obj[g].path
                 /\ r.obj[g]._data_folder = obj[g]._data_folder
                 /\ relative_path(r.obj[g]) = relative_path(obj[g])
                 /\ r.obj[g]._match = obj[g]._match
                 /\ g # h => r.obj[g] = obj[g]

C10_Witness ==
    /\ config.specialize
    /\ \E i \in 1..Len(pairs.out) :
          LET a == pairs.out[i][1]
              b == pairs.out[i][2]
          IN /\ <<a, b>> \in CommonPairs
             /\ obj[a].cls = "ElfFile" /\ obj[b].cls = "SymlinkFile"
             /\ obj[a]._match = b /\ obj[b]._match = a
             /\ obj[b].path = Root(2) \o relative_path(obj[a])

\* ===================================================== single calls on files

\* The comparator's variables while a single call is looked at
mainvars == <<file_set1, file_set2, config, obj, cache, fs, pairs, hist>>

MainIdle ==
    /\ file_set1 = {} /\ file_set2 = {}
    /\ config = [fuzzy_threshold |-> 0, specialize |-> FALSE]
    /\ obj = <<>>
    /\ cache = [common |-> <<>>, missing |-> <<>>, new |-> <<>>,
                moved |-> <<>>, removed |-> <<>>, added |-> <<>>]
    /\ fs = <<>>
    /\ pairs = NoGen
    /\ hist = [threshold |-> <<>>, scores |-> <<>>, hashes |-> <<>>]

\* ------------------------------------------------------------- the disk

\* _compare_files reads files of at most this size itself (line 55)
SmallFileLimit == 65536

\* st_size of the regular files in play
Sizes == {64, 512, 65537}

\* What os.readlink may return
LinkTargets == {<<"/", "a">>, <<"/", "b">>, <<"/", "a", "b">>}

\* A file as the system calls see it.  access: "ok", "noperm" (open fails
\* with PermissionError), "gone" (removed after os.stat), "stall" (a read
\* blocks longer than the alarm); kind "nodir": a parent directory cannot be
\* searched, os.stat fails with PermissionError.
File(kind, size, body, access, sections, target) ==
    [kind |-> kind, size |-> size, body |-> body, access |-> access,
     sections |-> sections, target |-> target]

RegFile(size, body, access, sections) ==
    File("reg", size, body, access, sections, <<>>)
MissingFile == File("missing", 0, <<>>, "gone", "none", <<>>)
NoDirFile == File("nodir", 0, <<>>, "noperm", "none", <<>>)
LinkFile(target) == File("link", 0, <<>>, "ok", "none", target)

\* What the paths the links name hold: /a and /ab the same bytes, /b nothing
Pointee(target) ==
    IF target = <<"/", "b">> THEN MissingFile
    ELSE RegFile(512, <<"raw", "x">>, "ok", "s1")

\* os.stat and open follow symbolic links
Resolve(f) == IF f.kind = "link" THEN Pointee(f.target) ELSE f

RawBodies == {<<"raw", "x">>, <<"raw", "y">>}

RegFiles ==
    {RegFile(sz, b, a, sec) :
        sz \in Sizes, b \in RawBodies,
        a \in {"ok", "noperm", "gone", "stall"}, sec \in {"none", "s1", "s2"}}

\* The files a handle of each class may stand for: SymlinkFile is chosen
\* for symbolic links and for nothing else (get_file_type, lines 38-40)
FilesOf(cls) ==
    CASE cls = "SymlinkFile" -> {LinkFile(t) : t \in LinkTargets}
      [] cls = "ElfFile" ->
            {f \in RegFiles : f.access # "stall"}
      [] OTHER ->
            {f \in RegFiles : /\ f.sections = "none"
                              /\ f.access = "stall" => f.size <= SmallFileLimit}
                \cup {MissingFile, NoDirFile} \cup {LinkFile(t) : t \in LinkTargets}

Classes == {"UnpackedFile", "ElfFile", "SymlinkFile"}

\* The outcome of a call: the exception it raises ("none": it returns val),
\* the paths it opened for reading, the processes it spawned
Res(exc, val, reads, spawns) ==
    [exc |-> exc, val |-> val, reads |-> reads, spawns |-> spawns]
NoExc == "none"

\* os.stat(path).st_size
stat(f) ==
    LET g == Resolve(f)
    IN CASE g.kind = "missing" -> Res("FileNotFoundError", 0, {}, {})
         [] g.kind = "nodir" -> Res("PermissionError", 0, {}, {})
         [] OTHER -> Res(NoExc, g.size, {}, {})

\* helpers/utils.py get_file_size
get_file_size(f, default) ==
    LET st == stat(f)
    IN IF st.exc = "FileNotFoundError" THEN Res(NoExc, default, {}, {}) ELSE st

\* read_timeout's alarm handler: what it raises.  Its first statement
\* formats file.name, and the module has no name `file`.
handler == "NameError"

\* b"".join(file._read(path)): the generator opens the path and reads it in
\* chunks under the alarm; it ends normally on TimeoutError only.
\* The value is the bytes joined.
_read(f) ==
    LET g == Resolve(f)
    IN CASE g.kind = "missing" \/ g.access = "gone" ->
                Res("FileNotFoundError", <<>>, {}, {})
         [] g.kind = "nodir" \/ g.access = "noperm" ->
                Res("PermissionError", <<>>, {}, {})
         [] g.access = "stall" ->
                IF handler = "TimeoutError" THEN Res(NoExc, <<>>, {}, {})
                ELSE Res(handler, <<>>, {}, {})
         [] OTHER -> Res(NoExc, g.body, {}, {})

\* ----------------------------------- generic.py, elf.py, symlink.py: content

\* The path of handle x and the temporary file made for it
PathOf(x) == <<"disk", x>>
TmpOf(x) == <<"tmp", x>>

\* "Target: {}".format(os.readlink(self.path)), character by character
TargetText(target) == <<"T", "a", "r", "g", "e", "t", ":", " ">> \o target

\* The temporary file written by _comparable_path of handle hd: the target
\* text of a link, the section dump of an ELF
TmpFile(hd) ==
    IF hd.cls = "SymlinkFile"
    THEN RegFile(Len(TargetText(hd.file.target)), TargetText(hd.file.target),
                 "ok", "none")
    ELSE RegFile(600, <<"dump", hd.file.sections>>, "ok", "none")

\* The file at path p of the disk e.h describes
FileAt(e, p) == IF p[1] = "tmp" THEN TmpFile(e.h[p[2]]) ELSE e.h[p[2]].file

\* SymlinkFile._comparable_path reading the link as a file
_comparable_path_follow(e, x) ==
    LET hd == e.h[x]
    IN CASE hd.cls = "ElfFile" ->
              IF Resolve(hd.file).kind # "reg" \/ hd.file.access # "ok"
              THEN Res("CalledProcessError", PathOf(x), {}, {"readelf"})
              ELSE IF hd.file.sections = "none"
              THEN Res(NoExc, PathOf(x), {}, {"readelf"})
              ELSE Res(NoExc, TmpOf(x), {}, {"readelf", "objdump"})
         [] OTHER -> Res(NoExc, PathOf(x), {}, {})

\* _comparable_path (cached_property) of UnpackedFile (generic.py 85-94),
\* SymlinkFile (symlink.py 29-36) and ElfFile (elf.py 177-196, 201-240):
\* the path, and the processes spawned to make it
_comparable_path(e, x) ==
    LET hd == e.h[x]
    IN CASE hd.cls = "SymlinkFile" -> Res(NoExc, TmpOf(x), {}, {})
         [] hd.cls = "ElfFile" ->
              IF Resolve(hd.file).kind # "reg" \/ hd.file.access # "ok"
              THEN Res("CalledProcessError", PathOf(x), {}, {"readelf"})
              ELSE IF hd.file.sections = "none"
              THEN Res(NoExc, PathOf(x), {}, {"readelf"})
              ELSE Res(NoExc, TmpOf(x), {}, {"readelf", "objdump"})
         [] OTHER -> Res(NoExc, PathOf(x), {}, {})

\* cmp -s path1 path2 == 0: both files can be read and hold the same bytes
cmp_s(e, path1, path2) ==
    LET c1 == _read(FileAt(e, path1))
        c2 == _read(FileAt(e, path2))
    IN c1.exc = NoExc /\ c2.exc = NoExc /\ c1.val = c2.val

\* _compare_files reading or spawning cmp whatever the sizes are
_compare_files_nosize(e, path1, path2) ==
    LET file1_size == get_file_size(FileAt(e, path1), -1)
        file2_size == get_file_size(FileAt(e, path2), -1)
    IN IF file1_size.exc # NoExc THEN file1_size
       ELSE IF file2_size.exc # NoExc THEN file2_size
       ELSE IF file1_size.val < 0 \/ file2_size.val < 0
       THEN Res(NoExc, FALSE, {}, {})
       ELSE IF file2_size.val <= SmallFileLimit
       THEN LET c1 == _read(FileAt(e, path1))
                c2 == _read(FileAt(e, path2))
            IN IF c1.exc # NoExc THEN Res(c1.exc, FALSE, {path1}, {})
               ELSE IF c2.exc # NoExc THEN Res(c2.exc, FALSE, {path1, path2}, {})
               ELSE Res(NoExc, c1.val = c2.val, {path1, path2}, {})
       ELSE Res(NoExc, cmp_s(e, path1, path2), {}, {"cmp"})

\* FileComparator._compare_files
_compare_files(e, path1, path2) ==
    LET file1_size == get_file_size(FileAt(e, path1), -1)
        file2_size == get_file_size(FileAt(e, path2), -1)
    IN IF file1_size.exc # NoExc THEN file1_size
       ELSE IF file2_size.exc # NoExc THEN file2_size
       ELSE IF file1_size.val < 0 \/ file2_size.val < 0
       THEN Res(NoExc, FALSE, {}, {})
       ELSE IF file1_size.val # file2_size.val
       THEN Res(NoExc, FALSE, {}, {})
       ELSE IF file2_size.val <= SmallFileLimit
       THEN LET c1 == _read(FileAt(e, path1))
                c2 == _read(FileAt(e, path2))
            IN IF c1.exc # NoExc THEN Res(c1.exc, FALSE, {path1}, {})
               ELSE IF c2.exc # NoExc THEN Res(c2.exc, FALSE, {path1, path2}, {})
               ELSE Res(NoExc, c1.val = c2.val, {path1, path2}, {})
       ELSE Res(NoExc, cmp_s(e, path1, path2), {}, {"cmp"})

\* r2 once r1 has returned: the first exception, the reads and the spawns of both
Then(r1, r2) ==
    IF r1.exc # NoExc THEN r1
    ELSE Res(r2.exc, r2.val, r1.reads \cup r2.reads, r1.spawns \cup r2.spawns)

\* _compare_files(self, self._comparable_path, other, other._comparable_path)
CompareComparable(e, x, y) ==
    LET p1 == _comparable_path(e, x)
        p2 == _comparable_path(e, y)
    IN Then(p1, Then(p2,
           IF p1.exc = NoExc /\ p2.exc = NoExc
           THEN _compare_files(e, p1.val, p2.val)
           ELSE Res(NoExc, FALSE, {}, {})))

\* ElfFile.has_same_content_as going to readelf and objdump at once
has_same_content_as_noquick(e, x, y) == CompareComparable(e, x, y)

\* has_same_content_as of UnpackedFile (generic.py 76-83), inherited by
\* SymlinkFile, and of ElfFile (elf.py 157-175)
has_same_content_as(e, x, y) ==
    IF e.h[x].cls = "ElfFile"
    THEN LET quick_compare == _compare_files(e, PathOf(x), PathOf(y))
         IN IF quick_compare.exc # NoExc \/ quick_compare.val THEN quick_compare
            ELSE Then(quick_compare, CompareComparable(e, x, y))
    ELSE CompareComparable(e, x, y)

\* FileComparator.are_equal
are_equal(e, file1, file2) == has_same_content_as(e, file1, file2)

\* ---------------------------------------------------- runs of are_equal

HandleNames == {"a", "b"}

InitEq ==
    /\ MainIdle
    /\ \E ca \in Classes, cb \in Classes :
         \E fa \in FilesOf(ca), fb \in FilesOf(cb) :
            env = [h |-> [x \in HandleNames |->
                            IF x = "a" THEN [cls |-> ca, file |-> fa]
                            ELSE [cls |-> cb, file |-> fb]]]
    /\ ret = <<>>

\* FileComparator.are_equal(file1, file2) on two of the handles
AreEqual ==
    /\ \E x \in HandleNames, y \in HandleNames :
          ret' = [op |-> "are_equal", args |-> <<x, y>>,
                  out |-> are_equal(env, x, y)]
    /\ UNCHANGED <<mainvars, env>>

NextEq == AreEqual

SpecEq == InitEq /\ [][NextEq]_vars

\* ------------------------------------------------------- claims on are_equal

Called(op) == ret # <<>> /\ ret.op = op

\* The bytes are_equal compares for handle x cannot be read: the file is
\* missing (also behind a link), may not be opened, or went away
Unreadable(x) ==
    /\ env.h[x].cls # "SymlinkFile"
    /\ LET g == Resolve(env.h[x].file)
       IN g.kind # "reg" \/ g.access \in {"noperm", "gone"}

Readable(x) ==
    \/ env.h[x].cls = "SymlinkFile"
    \/ LET g == Resolve(env.h[x].file) IN g.kind = "reg" /\ g.access = "ok"

Verdict(r) == IF r.exc # NoExc THEN "raises" ELSE IF r.val THEN "true" ELSE "false"

\* C11: when the bytes of either file cannot be read, are_equal raises
\* nothing and returns false.
C11_UnreadableIsFalse ==
    (Called("are_equal")
        /\ (Unreadable(ret.args[1]) \/ Unreadable(ret.args[2]))) =>
        Verdict(ret.out) = "false"

\* C12 (on files that can be read): are_equal(f, f) is true, and
\* are_equal(a, b) is are_equal(b, a), whatever the classes of the handles.
C12_ReflexiveSymmetric ==
    (Called("are_equal") /\ Readable(ret.args[1]) /\ Readable(ret.args[2])) =>
        /\ ret.args[1] = ret.args[2] => Verdict(ret.out) = "true"
        /\ Verdict(ret.out) =
              Verdict(are_equal(env, ret.args[2], ret.args[1]))

\* The size os.stat gives for the path of handle x, -1 when it gives none
StatSize(x) == get_file_size(env.h[x].file, -1)

\* The size of the bytes handle x is compared by, -1 when there is none
ComparableSize(x) ==
    get_file_size(FileAt(env, _comparable_path(env, x).val), -1)

\* C13 as claimed (on files that can be read): for two files of different
\* sizes are_equal returns false, reads no file and spawns no process.
C13_SizesDiffer ==
    (Called("are_equal") /\ Readable(ret.args[1]) /\ Readable(ret.args[2])) =>
        LET s1 == StatSize(ret.args[1])
            s2 == StatSize(ret.args[2])
        IN (s1.exc = NoExc /\ s2.exc = NoExc /\ s1.val >= 0 /\ s2.val >= 0
                /\ s1.val # s2.val) =>
              /\ Verdict(ret.out) = "false"
              /\ ret.out.reads = {} /\ ret.out.spawns = {}

\* C13 as the code has it: for two handles neither of which is an ElfFile,
\* when the bytes they are compared by have different sizes, are_equal
\* returns false, reads no file and spawns no process.
C13_SizesDifferNoElf ==
    (Called("are_equal") /\ env.h[ret.args[1]].cls # "ElfFile"
                         /\ env.h[ret.args[2]].cls # "ElfFile") =>
        LET s1 == ComparableSize(ret.args[1])
            s2 == ComparableSize(ret.args[2])
        IN (s1.exc = NoExc /\ s2.exc = NoExc /\ s1.val >= 0 /\ s2.val >= 0
                /\ s1.val # s2.val) =>
              /\ Verdict(ret.out) = "false"
              /\ ret.out.reads = {} /\ ret.out.spawns = {}

C13_Witness ==
    /\ Called("are_equal")
    /\ env.h[ret.args[1]].cls = "UnpackedFile"
    /\ env.h[ret.args[2]].cls = "SymlinkFile"
    /\ env.h[ret.args[1]].file.kind = "reg"
    /\ env.h[ret.args[1]].file.access = "noperm"
    /\ env.h[ret.args[1]].file.size = 512
    /\ Verdict(ret.out) = "false"

\* C16: for two SymlinkFile handles the bytes compared are "Target: "
\* followed by the link's target, are_equal is true exactly when the two
\* targets are the same string, and neither the links nor what they point
\* to is opened.
C16_SymlinkByTarget ==
    (Called("are_equal") /\ env.h[ret.args[1]].cls = "SymlinkFile"
                         /\ env.h[ret.args[2]].cls = "SymlinkFile") =>
        LET x == ret.args[1]
            y == ret.args[2]
        IN /\ \A z \in {x, y} :
                 FileAt(env, _comparable_path(env, z).val).body
                     = TargetText(env.h[z].file.target)
           /\ ret.out.exc = NoExc
           /\ ret.out.val = (env.h[x].file.target = env.h[y].file.target)
           /\ ret.out.reads \subseteq {TmpOf(x), TmpOf(y)}
           /\ ret.out.spawns = {}

C16_Witness ==
    /\ Called("are_equal") /\ ret.args = <<"a", "b">>
    /\ env.h["a"].cls = "SymlinkFile" /\ env.h["b"].cls = "SymlinkFile"
    /\ env.h["a"].file.target = <<"/", "b">>
    /\ env.h["b"].file.target = <<"/", "b">>
    /\ Pointee(<<"/", "b">>).kind = "missing"
    /\ ret.out.val

\* C20: when a read of a file stalls beyond the alarm (and every file can
\* otherwise be read), no exception reaches the caller of are_equal.
C20_StallEndsRead ==
    (Called("are_equal")
        /\ \A x \in {ret.args[1], ret.args[2]} :
              Resolve(env.h[x].file).kind = "reg"
              /\ env.h[x].file.access \in {"ok", "stall"}
        /\ \E p \in ret.out.reads : FileAt(env, p).access = "stall") =>
        ret.out.exc = NoExc

\* ------------------------------------------- utils.py: hash and distance

\* compute_fuzzy_hash hashes files of at least this size (line 104)
HashMinSize == 512

\* The longest output of cmp -l in play, in bytes
MaxReport == 10

\* A fuzzy hash that is None
NoHash == <<>>

\* Content tlsh refuses for lack of randomness
FlatBody == <<"raw", "flat">>

\* h.hexdigest() once the content has been fed: ValueError becomes None
hexdigest(body) == IF body = FlatBody THEN NoHash ELSE <<"T1">> \o body

\* compute_fuzzy_hash hashing files above the limit only
compute_fuzzy_hash_gt(e, path) ==
    LET size == get_file_size(FileAt(e, path), 0)
    IN IF size.exc # NoExc THEN Res(size.exc, NoHash, {}, {})
       ELSE IF size.val > HashMinSize
       THEN LET c == _read(FileAt(e, path))
            IN IF c.exc # NoExc THEN Res(c.exc, NoHash, {path}, {})
               ELSE Res(NoExc, hexdigest(c.val), {path}, {})
       ELSE Res(NoExc, NoHash, {}, {})

\* helpers/utils.py compute_fuzzy_hash(file, path)
compute_fuzzy_hash(e, path) ==
    LET size == get_file_size(FileAt(e, path), 0)
    IN IF size.exc # NoExc THEN Res(size.exc, NoHash, {}, {})
       ELSE IF size.val >= HashMinSize
       THEN LET c == _read(FileAt(e, path))
            IN IF c.exc # NoExc THEN Res(c.exc, NoHash, {path}, {})
               ELSE Res(NoExc, hexdigest(c.val), {path}, {})
       ELSE Res(NoExc, NoHash, {}, {})

\* fuzzy_hash (cached_property) of UnpackedFile (generic.py 115-117),
\* inherited by SymlinkFile, and of ElfFile (elf.py 151-155)
fuzzy_hash(e, x) ==
    IF e.h[x].cls = "ElfFile" THEN compute_fuzzy_hash(e, PathOf(x))
    ELSE LET p == _comparable_path(e, x)
         IN Then(p, IF p.exc = NoExc THEN compute_fuzzy_hash(e, p.val)
                    ELSE Res(NoExc, NoHash, {}, {}))

\* tlsh.diff of two digests: 0 for the same digest
tlsh_diffs(hash1, hash2) == IF hash1 = hash2 THEN {0} ELSE 0..MaxTlsh

\* len of the standard output of cmp -l path1 path2 (e.output when it exits
\* with 1 or 2): nothing when a file cannot be read or the bytes agree
cmp_l(e, path1, path2) ==
    LET c1 == _read(FileAt(e, path1))
        c2 == _read(FileAt(e, path2))
    IN IF c1.exc # NoExc \/ c2.exc # NoExc THEN {0}
       ELSE IF c1.val = c2.val
                 /\ Resolve(FileAt(e, path1)).size = Resolve(FileAt(e, path2)).size
       THEN {0}
       ELSE 0..MaxReport

\* helpers/utils.py compute_distance(file1, file2), tlsh.diff giving
\* tlsh_diff and cmp -l giving diff_len bytes of output
compute_distance_files(e, file1, file2, tlsh_diff, diff_len) ==
    LET hash1 == fuzzy_hash(e, file1)
        hash2 == fuzzy_hash(e, file2)
        size1 == get_file_size(FileAt(e, PathOf(file1)), 0)
        size2 == get_file_size(FileAt(e, PathOf(file2)), 0)
        hashes == Then(hash1, hash2)
    IN IF hashes.exc # NoExc THEN Res(hashes.exc, 0, hashes.reads, {})
       ELSE IF hash1.val # NoHash /\ hash2.val # NoHash
       THEN Res(NoExc, compute_distance(TRUE, TRUE, tlsh_diff, 0, 0),
                hashes.reads, {})
       ELSE IF size1.exc # NoExc THEN Res(size1.exc, 0, hashes.reads, {})
       ELSE IF size2.exc # NoExc THEN Res(size2.exc, 0, hashes.reads, {})
       ELSE Res(NoExc,
                compute_distance(FALSE, FALSE, tlsh_diff,
                                 Max(size1.val, size2.val), diff_len),
                hashes.reads, {"cmp"})

\* ------------------------------------------ runs of hash and distance

\* st_size of the regular files in play
HashSizes == {0, 6, 511, 512}

HashFilesOf(cls) ==
    CASE cls = "SymlinkFile" -> {LinkFile(t) : t \in LinkTargets}
      [] cls = "ElfFile" ->
            {RegFile(sz, b, a, "s1") :
                sz \in HashSizes, b \in {<<"raw", "x">>, FlatBody},
                a \in {"ok", "noperm"}}
      [] OTHER ->
            {RegFile(sz, b, a, "none") :
                sz \in HashSizes, b \in RawBodies \cup {FlatBody},
                a \in {"ok", "noperm"}}
                \cup {MissingFile, NoDirFile}
                \cup {LinkFile(t) : t \in LinkTargets}

InitDist ==
    /\ MainIdle
    /\ \E ca \in Classes, cb \in Classes :
         \E fa \in HashFilesOf(ca), fb \in HashFilesOf(cb) :
            env = [h |-> [x \in HandleNames |->
                            IF x = "a" THEN [cls |-> ca, file |-> fa]
                            ELSE [cls |-> cb, file |-> fb]]]
    /\ ret = <<>>

\* file.fuzzy_hash on one of the handles
FuzzyHash ==
    /\ \E x \in HandleNames :
          ret' = [op |-> "fuzzy_hash", args |-> <<x>>,
                  out |-> fuzzy_hash(env, x)]
    /\ UNCHANGED <<mainvars, env>>

\* compute_distance(file1, file2) on the two handles
ComputeDistance ==
    /\ \E x \in HandleNames, y \in HandleNames :
         \E d \in tlsh_diffs(fuzzy_hash(env, x).val, fuzzy_hash(env, y).val),
            n \in cmp_l(env, PathOf(x), PathOf(y)) :
            ret' = [op |-> "compute_distance", args |-> <<x, y>>,
                    diff_len |-> n, tlsh_diff |-> d,
                    out |-> compute_distance_files(env, x, y, d, n)]
    /\ UNCHANGED <<mainvars, env>>

NextDist == FuzzyHash \/ ComputeDistance

SpecDist == InitDist /\ [][NextDist]_vars

\* ---------------------------------------------- claims on hash and distance

\* The path whose bytes fuzzy_hash feeds to tlsh for handle x
HashedPath(x) ==
    IF env.h[x].cls = "ElfFile" THEN PathOf(x)
    ELSE _comparable_path(env, x).val

\* C14: the fuzzy hash of a handle whose hashed bytes are fewer than 512
\* (511 included) is None and nothing is read; hashed bytes of exactly 512
\* that can be read are read, and the hash is None only when tlsh refuses
\* the content.
C14_HashFrom512 ==
    Called("fuzzy_hash") =>
        LET src == FileAt(env, HashedPath(ret.args[1]))
            size == get_file_size(src, 0)
        IN /\ (size.exc = NoExc /\ size.val <= 511) =>
                 ret.out = Res(NoExc, NoHash, {}, {})
           /\ (size.exc = NoExc /\ size.val = 512
                     /\ Resolve(src).access = "ok") =>
                 /\ ret.out.exc = NoExc
                 /\ ret.out.reads = {HashedPath(ret.args[1])}
                 /\ (ret.out.val = NoHash) = (Resolve(src).body = FlatBody)

C14_Witness ==
    /\ Called("fuzzy_hash")
    /\ env.h[ret.args[1]].cls = "UnpackedFile"
    /\ env.h[ret.args[1]].file.kind = "reg"
    /\ env.h[ret.args[1]].file.size = 512
    /\ ret.out.exc = NoExc /\ ret.out.val # NoHash

C14_Witness511 ==
    /\ Called("fuzzy_hash")
    /\ env.h[ret.args[1]].cls = "ElfFile"
    /\ env.h[ret.args[1]].file.size = 511
    /\ env.h[ret.args[1]].file.body # FlatBody
    /\ ret.out.val = NoHash

\* Both hashes of the pair are computed and one of them is None
EitherHashUndefined ==
    LET hash1 == fuzzy_hash(env, ret.args[1])
        hash2 == fuzzy_hash(env, ret.args[2])
    IN /\ hash1.exc = NoExc /\ hash2.exc = NoExc
       /\ hash1.val = NoHash \/ hash2.val = NoHash

\* C15: when either fuzzy hash of the pair is None, compute_distance runs
\* cmp and returns an integer of at least 1 -- also when cmp prints nothing,
\* when it prints one line, when a file is empty or missing.
C15_FallbackAtLeastOne ==
    (Called("compute_distance") /\ EitherHashUndefined) =>
        /\ ret.out.exc = NoExc
        /\ "cmp" \in ret.out.spawns
        /\ ret.out.val >= 1

C15_Witness ==
    /\ Called("compute_distance") /\ EitherHashUndefined
    /\ env.h[ret.args[1]].file.kind = "missing"
    /\ env.h[ret.args[2]].file.kind = "reg"
    /\ env.h[ret.args[2]].file.size = 0
    /\ ret.diff_len = 0
    /\ ret.out.val = 1

\* The larger of the two sizes compute_distance divides by
LargerSize ==
    Max(get_file_size(env.h[ret.args[1]].file, 0).val,
        get_file_size(env.h[ret.args[2]].file, 0).val)

\* C19 as claimed: on the fallback path the result is max(1, r), r an integer
\* nearest to 10 * d / max(1, s).
C19_Rounded ==
    (Called("compute_distance") /\ EitherHashUndefined) =>
        LET d == ret.diff_len
            s == Max(1, LargerSize)
        IN \E r \in 0..(10 * d + 1) :
              /\ 2 * (10 * d - r * s) <= s
              /\ 2 * (r * s - 10 * d) <= s
              /\ ret.out.val = Max(1, r)

\* C19 as the code has it: on the fallback path the result is max(1, q),
\* q the integer part of 10 * d / max(1, s).
C19_Truncated ==
    (Called("compute_distance") /\ EitherHashUndefined) =>
        LET d == ret.diff_len
            s == Max(1, LargerSize)
        IN \E q \in 0..(10 * d) :
              /\ q * s <= 10 * d
              /\ 10 * d < (q + 1) * s
              /\ ret.out.val = Max(1, q)

C19_Witness ==
    /\ Called("compute_distance") /\ EitherHashUndefined
    /\ ret.diff_len = 10
    /\ LargerSize = 6
    /\ ret.out.val = 16

\* ------------------------------------------- config.py, logger.py: startup

\* A Python value: its type ("none", "bool", "int", "str") and its text
Val(t, s) == [t |-> t, s |-> s]
None == Val("none", "")

\* int(s) of the numerals in play
IntOf(s) ==
    CASE s = "-1" -> -1
      [] s = "0" -> 0
      [] s = "2" -> 2
      [] s = "5" -> 5

\* bool(v)
Truthy(v) ==
    CASE v.t = "bool" -> v.s = "True"
      [] v.t = "int" -> IntOf(v.s) # 0
      [] v.t = "str" -> v.s # ""
      [] OTHER -> FALSE

\* str.lower
lower(s) == IF s = "Distance" THEN "distance" ELSE s

\* What setup_argparser returns for the options make_config looks at: None
\* for an option that was not given, except data_file whose default is "-"
Arguments ==
    [data_file : {Val("str", "-"), Val("str", "out.txt")},
     sort_order : {None, Val("str", "none"), Val("str", "path"),
                   Val("str", "distance")},
     compute_distance : {None, Val("bool", "False")},
     min_dist : {None, Val("int", "-1"), Val("int", "0"), Val("int", "5")},
     jobs : {None, Val("int", "-1"), Val("int", "0"), Val("int", "2")}]

\* The [diff] section of the configuration file, when there is one:
\* ConfigParser.get returns strings
NoConfigFile ==
    [exists |-> FALSE, sort_order |-> None, compute_distance |-> None,
     min_dist |-> None, jobs |-> None]

ConfigFiles ==
    {NoConfigFile} \cup
    [exists : {TRUE},
     sort_order : {None, Val("str", "Distance")},
     compute_distance : {None, Val("str", "True"), Val("str", "False")},
     min_dist : {None, Val("str", "5")},
     jobs : {None, Val("str", "0"), Val("str", "2")}]

\* Config._merge_values for a key whose default is not a list
_merge_values(arg_value, config_value, default_value) ==
    IF arg_value # None THEN arg_value
    ELSE IF config_value # None THEN config_value
    ELSE default_value

\* Config(arguments): the attributes make_config reads (defaults of lines
\* 38-60, jobs defaulting to the number of processors)
Config(arguments, file) ==
    [data_file |-> _merge_values(arguments.data_file, None, Val("str", "-")),
     sort_order |-> _merge_values(arguments.sort_order, file.sort_order,
                                  Val("str", "none")),
     compute_distance |-> _merge_values(arguments.compute_distance,
                                        file.compute_distance,
                                        Val("bool", "True")),
     min_dist |-> _merge_values(arguments.min_dist, file.min_dist,
                                Val("int", "-1")),
     jobs |-> _merge_values(arguments.jobs, file.jobs, Val("int", "2"))]

\* Logger.setup_logging: the files it opens, with the mode
setup_logging(output_file) ==
    IF output_file.s # "-" THEN << <<"w", output_file.s>> >> ELSE <<>>

\* make_config: the exception it raises and the files opened by then
make_config(arguments, file) ==
    LET cfg == Config(arguments, file)
        opened == (IF file.exists THEN << <<"r", "config.cfg">> >> ELSE <<>>)
                      \o setup_logging(cfg.data_file)
        Raise(exc) == [exc |-> exc, opened |-> opened]
    IN IF lower(cfg.sort_order.s) = "distance" /\ ~Truthy(cfg.compute_distance)
       THEN Raise("ValueError")
       ELSE IF cfg.min_dist.t # "int" THEN Raise("TypeError")
       ELSE IF IntOf(cfg.min_dist.s) >= 0 /\ ~Truthy(cfg.compute_distance)
       THEN Raise("ValueError")
       ELSE IF cfg.jobs.t = "none" THEN Raise(NoExc)
       ELSE IF cfg.jobs.t # "int" THEN Raise("TypeError")
       ELSE IF IntOf(cfg.jobs.s) <= 0 THEN Raise("ValueError")
       ELSE Raise(NoExc)

InitConfig ==
    /\ MainIdle
    /\ \E arguments \in Arguments, file \in ConfigFiles :
          env = [arguments |-> arguments, file |-> file]
    /\ ret = <<>>

\* make_config() at startup
MakeConfig ==
    /\ ret = <<>>
    /\ ret' = [op |-> "make_config", args |-> <<>>,
               out |-> make_config(env.arguments, env.file)]
    /\ UNCHANGED <<mainvars, env>>

NextConfig == MakeConfig

SpecConfig == InitConfig /\ [][NextConfig]_vars

\* ---------------------------------------------------- claims on make_config

\* The options as the user wrote them, command line first
Chosen(key) ==
    Config(env.arguments, env.file)[key]

DistanceDisabled == Chosen("compute_distance").s = "False"

\* The combination of options is one of the three invalid ones
InvalidCombination ==
    \/ lower(Chosen("sort_order").s) = "distance" /\ DistanceDisabled
    \/ IntOf(Chosen("min_dist").s) >= 0 /\ DistanceDisabled
    \/ IntOf(Chosen("jobs").s) <= 0

\* C17: with an invalid combination of options make_config raises, and no
\* file has been created or truncated by then.
C17_InvalidFatalBeforeIO ==
    (Called("make_config") /\ InvalidCombination) =>
        /\ ret.out.exc # NoExc
        /\ \A i \in 1..Len(ret.out.opened) : ret.out.opened[i][1] # "w"

\* ------------------------------------------------- runner.py: the file walk

\* A file: "file", "link" or "dir", its MIME type as libmagic reports it,
\* and what the unpacker extracts from it (name and file of each member)
Node(kind, mime, children) == [kind |-> kind, mime |-> mime, children |-> children]
PlainNode == Node("file", <<"text", "plain">>, <<>>)
LinkNode == Node("link", <<"text", "plain">>, <<>>)
DirNode == Node("dir", <<"directory">>, <<>>)
Archive(children) == Node("file", <<"application", "zip">>, children)
Member(name, node) == [name |-> name, node |-> node]

\* Files by depth of nesting: no archive, archives of plain files and links,
\* archives of archives, one of them with a member named as a source file
Level0 == {PlainNode, LinkNode}
Level1 ==
    Level0 \cup {Archive(<<Member("x", n)>>) : n \in Level0}
           \cup {Archive(<<Member("x", PlainNode), Member("y", LinkNode)>>)}
Level2 ==
    Level1 \cup {Archive(<<Member("x", n)>>) : n \in Level1 \ Level0}
           \cup {Archive(<<Member("a", Archive(<<Member("x", PlainNode)>>))>>)}

\* The source folder, the data folder of the extraction (data_folder/files)
source_folder == <<"src">>
data_folder == <<"data", "files">>

\* The glob patterns in play, as the tokens of the pattern: */b, */x,
\* /data/*, /src/*; and for MIME types text/*, application/*, inode/*
GlobPatterns ==
    {<<"*", "b">>, <<"*", "x">>, <<"data", "*">>, <<"src", "*">>}
MimePatterns == {<<"text", "*">>, <<"application", "*">>, <<"inode", "*">>}

\* fnmatch.fnmatchcase(name, pattern) on the tokens of both: * matches any
\* run of tokens
RECURSIVE fnmatchcase(_, _)
fnmatchcase(name, pat) ==
    IF pat = <<>> THEN name = <<>>
    ELSE IF Head(pat) = "*"
    THEN \/ fnmatchcase(name, Tail(pat))
         \/ name # <<>> /\ fnmatchcase(Tail(name), pat)
    ELSE /\ name # <<>>
         /\ Head(name) = Head(pat)
         /\ fnmatchcase(Tail(name), Tail(pat))

\* helpers/utils.py get_file_type(path)["mime"]: symbolic links are not
\* followed
mime_of(node) ==
    IF node.kind = "link" THEN <<"inode", "symlink">> ELSE node.mime

\* Runner._is_mime_excluded
_is_mime_excluded(e, mime_type) ==
    \E i \in 1..Len(e.excluded_mimes) : fnmatchcase(mime_type, e.excluded_mimes[i])

\* Runner.is_excluded of a path and the file found there
is_excluded(e, path, node) ==
    \/ \E i \in 1..Len(e.excluded) : fnmatchcase(path, e.excluded[i])
    \/ e.excluded_mimes # <<>> /\ _is_mime_excluded(e, mime_of(node))

\* A path and the file there
Item(path, node) == [path |-> path, node |-> node]

\* os.walk(file_path): the files of the source folder
os_walk(e) ==
    (IF "a" \in DOMAIN e.files
     THEN <<Item(source_folder \o <<"a">>, e.files["a"])>> ELSE <<>>)
    \o (IF "b" \in DOMAIN e.files
        THEN <<Item(source_folder \o <<"b">>, e.files["b"])>> ELSE <<>>)

\* Runner._walk yielding every file
_walk_all(e) == os_walk(e)

\* Runner._walk
_walk(e) == SelectSeq(os_walk(e), LAMBDA it : ~is_excluded(e, it.path, it.node))

\* UnpackedFile(path, config, data_folder); found is the path the file was
\* found at (not an attribute of the handle)
YieldedFile(path, folder, it) ==
    [path |-> path, data_folder |-> folder, found |-> it.path, node |-> it.node]

\* The path given to the runner: the source folder, or its file "a"
RootItem(e) ==
    IF e.root = "dir" THEN Item(source_folder, DirNode)
    ELSE Item(source_folder \o <<"a">>, e.files["a"])

\* Runner.list_files, the generator run to its end
list_files(e) ==
    LET file_path == RootItem(e)
    IN IF is_excluded(e, file_path.path, file_path.node) THEN <<>>
       ELSE IF file_path.node.kind = "dir"
       THEN [i \in 1..Len(_walk(e)) |->
                YieldedFile(_walk(e)[i].path, source_folder, _walk(e)[i])]
       ELSE <<YieldedFile(file_path.path, source_folder, file_path)>>

\* file_path.relative_to(folder) succeeds
IsUnder(path, folder) ==
    Len(path) > Len(folder) /\ SubSeq(path, 1, Len(folder)) = folder

\* _copy_if_necessary: the path of the copy; the path itself for a file
\* outside the source folder, and for a link the destination already holds
_copy_if_necessary(e, it) ==
    IF ~IsUnder(it.path, source_folder) THEN it.path
    ELSE IF it.node.kind = "link" /\ e.stale THEN it.path
    ELSE data_folder \o SubSeq(it.path, Len(source_folder) + 1, Len(it.path))

\* unpacker.unpack(file_path): the paths of what was extracted into
\* unpacker._file_folder
unpack(it, extract_folder) ==
    [i \in 1..Len(it.node.children) |->
        Item(extract_folder \o <<it.node.children[i].name>>,
             it.node.children[i].node)]

\* What _extract does, in order: "unpack" is a call of unpacker.unpack on
\* the file, "yield" a handle yielded for it, "remove" os.remove of it
Event(ev, depth, path, it) ==
    [ev |-> ev, depth |-> depth, handle |-> YieldedFile(path, data_folder, it)]

\* should_skip looking at the depth only
should_skip_depth(e, it, depth) == e.max_depth >= 0 /\ depth > e.max_depth

\* should_skip (lines 233-242)
should_skip(e, it, depth) ==
    \/ e.max_depth >= 0 /\ depth > e.max_depth
    \/ it.node.kind = "link"

\* extract_folder (lines 247-252)
extract_folder(path) ==
    IF IsUnder(path, data_folder) THEN path \o <<"_extracted">>
    ELSE data_folder

\* _delete_if_necessary without the test on the source folder
_delete_if_necessary_anywhere(e, it) ==
    IF ~e.clean_extracted THEN <<>>
    ELSE <<Event("remove", 0, it.path, it)>>

\* _delete_if_necessary(file_path, config)
_delete_if_necessary(e, it) ==
    IF ~e.clean_extracted THEN <<>>
    ELSE IF IsUnder(it.path, source_folder) THEN <<>>
    ELSE <<Event("remove", 0, it.path, it)>>

\* Runner._extract(file_path, unpacker, config, depth), the generator run
\* to its end: what it did; _extract_each is its loop over the extracted
\* paths
RECURSIVE _extract(_, _, _), _extract_each(_, _, _)
_extract(e, it, depth) ==
    IF is_excluded(e, it.path, it.node) THEN <<>>
    ELSE IF should_skip(e, it, depth)
    THEN <<Event("yield", depth, _copy_if_necessary(e, it), it)>>
    ELSE LET extracted == unpack(it, extract_folder(it.path))
         IN <<Event("unpack", depth, it.path, it)>> \o
            (IF Len(extracted) = 0
             THEN <<Event("yield", depth, _copy_if_necessary(e, it), it)>>
             ELSE _extract_each(e, extracted, depth + 1)
                      \o _delete_if_necessary(e, it))

_extract_each(e, its, depth) ==
    IF its = <<>> THEN <<>>
    ELSE _extract(e, Head(its), depth) \o _extract_each(e, Tail(its), depth)

\* Runner.extract, the generator run to its end: what it did
extract_events(e) ==
    IF RootItem(e).node.kind = "dir" THEN _extract_each(e, _walk(e), 0)
    ELSE _extract(e, RootItem(e), 0)

\* The handles among the events, in order
Yielded(events) ==
    LET ys == SelectSeq(events, LAMBDA ev : ev.ev = "yield")
    IN [i \in 1..Len(ys) |-> ys[i].handle]

\* Runner.extract, the generator run to its end: the handles it yielded
extract(e) == Yielded(extract_events(e))

\* ------------------------------------------------------ runs of the runner

\* The option lists in play
ExcludeLists == {<<>>} \cup {<<p>> : p \in GlobPatterns}
ExcludeMimeLists == {<<>>} \cup {<<p>> : p \in MimePatterns}

\* The source folders in play: files a and b, or one of them
SourceFiles ==
    UNION {[names -> Level2] : names \in {{"a"}, {"b"}, {"a", "b"}}}

InitRunner ==
    /\ MainIdle
    /\ \E files \in SourceFiles, root \in {"dir", "file"},
          excluded \in ExcludeLists, excluded_mimes \in ExcludeMimeLists,
          max_depth \in {-1, 0, 1}, stale \in BOOLEAN,
          clean_extracted \in BOOLEAN :
          /\ root = "file" => DOMAIN files = {"a"}
          /\ env = [files |-> files, root |-> root, excluded |-> excluded,
                    excluded_mimes |-> excluded_mimes,
                    max_depth |-> max_depth, stale |-> stale,
                    clean_extracted |-> clean_extracted]
    /\ ret = <<>>

\* list(runner.list_files(file_path))
ListFiles ==
    /\ ret' = [op |-> "list_files", args |-> <<>>, out |-> list_files(env)]
    /\ UNCHANGED <<mainvars, env>>

\* list(runner.extract(file_path, unpacker, config))
Extract ==
    /\ ret' = [op |-> "extract", args |-> <<>>, out |-> extract(env),
               events |-> extract_events(env)]
    /\ UNCHANGED <<mainvars, env>>

NextRunner == ListFiles \/ Extract

SpecRunner == InitRunner /\ [][NextRunner]_vars

\* ------------------------------------------------------ claims on the runner

\* C18 as claimed: no handle yielded by list_files or by extract has a
\* path matching an exclude pattern or a MIME type matching an exclude-MIME
\* pattern.
C18_NoYieldedExcluded ==
    (Called("list_files") \/ Called("extract")) =>
        \A i \in 1..Len(ret.out) :
            ~is_excluded(env, ret.out[i].path, ret.out[i].node)

\* C18 as the code has it: no handle yielded by list_files has a path or a
\* MIME type matching an exclude pattern; no handle yielded by extract was
\* found at a path matching an exclude pattern, nor has a MIME type matching
\* an exclude-MIME pattern (the path of the handle may be that of a copy).
C18_NotExcludedWhereFound ==
    /\ Called("list_files") =>
          \A i \in 1..Len(ret.out) :
              /\ ret.out[i].found = ret.out[i].path
              /\ ~is_excluded(env, ret.out[i].path, ret.out[i].node)
    /\ Called("extract") =>
          \A i \in 1..Len(ret.out) :
              /\ ~is_excluded(env, ret.out[i].found, ret.out[i].node)
              /\ ~_is_mime_excluded(env, mime_of(ret.out[i].node))

C18_Witness ==
    /\ Called("extract")
    /\ env.root = "dir" /\ DOMAIN env.files = {"a", "b"}
    /\ env.excluded = << <<"*", "b">> >>
    /\ env.excluded_mimes = << <<"inode", "*">> >>
    /\ env.files["a"] = Archive(<<Member("x", PlainNode), Member("y", LinkNode)>>)
    /\ env.max_depth = 0
    /\ Len(ret.out) = 1
    /\ ret.out[1].path = data_folder \o <<"x">>

\* ------------------------------------------------ elf.py: the section table

\* The most section rows readelf prints, in play
MaxRows == 3

\* A line of the output of readelf --wide --section-headers: "text" is a
\* line without a bracket (also the empty line), "File:" starts with File:,
\* "key" starts with Key to Flags, "row" is [Nr] Name Type ... Flg Lk Inf Al,
\* "short" a bracketed row of fewer than seven columns
Line(kind, name, flags) == [kind |-> kind, name |-> name, flags |-> flags]
TextLine == Line("text", "", "")
FileLine == Line("File:", "", "")
KeyLine == Line("key", "", "")
ShortRow == Line("short", ".bss", "")
Row(name, flags) == Line("row", name, flags)

\* ElfFile.KEEP_SECTIONS, the members in play
KEEP_SECTIONS == {".text", ".data"}

\* The lines that may follow the heading of the table
BodyLines ==
    {Row(".text", "AX"), Row(".data", "WA"), Row(".comment", "MS"),
     ShortRow, TextLine, KeyLine}

RECURSIVE SeqsUpTo(_, _)
SeqsUpTo(S, n) ==
    IF n = 0 THEN {<<>>}
    ELSE LET shorter == SeqsUpTo(S, n - 1)
         IN shorter \cup {Append(q, l) : q \in shorter, l \in S}

\* What readelf may print, split at newlines: nothing, or the five lines
\* before the first kept row (preceded by two more when it names the file)
\* and the rows
Outputs ==
    {<<TextLine>>} \cup
    {hd \o <<TextLine, TextLine, TextLine, TextLine, Row("", "")>> \o body :
        hd \in {<<>>, <<TextLine, FileLine>>},
        body \in SeqsUpTo(BodyLines, MaxRows)}

\* ElfFile._should_skip_section
_should_skip_section(name) == name \notin KEEP_SECTIONS

\* ElfAnalyzer: its two lists
ElfAnalyzer(code_sections, data_sections) ==
    [code_sections |-> code_sections, data_sections |-> data_sections]

\* "X" in flags, for the flag columns in play
HasX(flags) == flags \in {"AX", "X"}

\* ElfAnalyzer.add_section
add_section(a, section_name, flags) ==
    IF HasX(flags)
    THEN ElfAnalyzer(Append(a.code_sections, section_name), a.data_sections)
    ELSE ElfAnalyzer(a.code_sections, Append(a.data_sections, section_name))

\* ElfAnalyzer.is_empty
is_empty(a) == a.code_sections = <<>> /\ a.data_sections = <<>>

\* The loop of _load_sections over the lines left, from analyzer a: the
\* analyzer at the end, and whether the except clause was entered
RECURSIVE LoadLines(_, _)
LoadLines(a, output) ==
    IF output = <<>> THEN [analyzer |-> a, logged |-> FALSE]
    ELSE LET line == Head(output)
         IN CASE line.kind = "key" -> [analyzer |-> a, logged |-> FALSE]
              [] line.kind \in {"text", "File:", "short"} ->
                    [analyzer |-> a, logged |-> TRUE]
              [] OTHER ->
                    IF _should_skip_section(line.name)
                    THEN LoadLines(a, Tail(output))
                    ELSE LoadLines(add_section(a, line.name, line.flags),
                                   Tail(output))

\* output[n:]
Drop(output, n) == SubSeq(output, n + 1, Len(output))

\* ElfFile._load_sections on what readelf printed
_load_sections(output) ==
    IF Len(output) < 2
    THEN [analyzer |-> ElfAnalyzer(<<>>, <<>>), logged |-> TRUE]
    ELSE LoadLines(ElfAnalyzer(<<>>, <<>>),
                   Drop(IF output[2].kind = "File:" THEN Drop(output, 2)
                        ELSE output, 5))

\* ElfFile._comparable_path on what readelf printed: "path" is self.path,
\* "tmp" the temporary file holding the dumps of the sections kept
ElfComparablePath(output) ==
    LET r == _load_sections(output)
    IN [exc |-> NoExc,
        val |-> IF is_empty(r.analyzer) THEN "path" ELSE "tmp",
        analyzer |-> r.analyzer, logged |-> r.logged]

InitElf ==
    /\ MainIdle
    /\ \E output \in Outputs : env = [output |-> output]
    /\ ret = <<>>

\* file._comparable_path of an ElfFile
ComparablePath ==
    /\ ret = <<>>
    /\ ret' = [op |-> "_comparable_path", args |-> <<>>,
               out |-> ElfComparablePath(env.output)]
    /\ UNCHANGED <<mainvars, env>>

NextElf == ComparablePath

SpecElf == InitElf /\ [][NextElf]_vars

\* ------------------------------------------------ claims on the section table

\* C21: when the parsing of the section table fails at some line, the error
\* is logged, no section is kept -- not even those read before that line --
\* the comparable path is the file itself, and nothing is raised.
C21_ParseFailureNoSections ==
    (Called("_comparable_path") /\ ret.out.logged) =>
        /\ ret.out.exc = NoExc
        /\ is_empty(ret.out.analyzer)
        /\ ret.out.val = "path"

\* ------------------------------------------------- claims on ELF equality

\* The files of handles x and y can be read and hold the same bytes
RawIdentical(x, y) ==
    LET f == Resolve(env.h[x].file)
        g == Resolve(env.h[y].file)
    IN /\ f.kind = "reg" /\ g.kind = "reg"
       /\ f.access = "ok" /\ g.access = "ok"
       /\ f.size = g.size /\ f.body = g.body

AnalysisTools == {"readelf", "objdump"}

\* C22: are_equal on an ElfFile compares the raw files first; when that
\* comparison returns true (or raises) its outcome is the result and no
\* analysis tool has run, so readelf and objdump run only after a quick
\* compare that returned false; two byte-identical raw files are equal
\* without any analysis tool.
C22_ElfTwoStage ==
    (Called("are_equal") /\ env.h[ret.args[1]].cls = "ElfFile") =>
        LET x == ret.args[1]
            y == ret.args[2]
            quick_compare == _compare_files(env, PathOf(x), PathOf(y))
        IN /\ Verdict(quick_compare) # "false" =>
                 /\ Verdict(ret.out) = Verdict(quick_compare)
                 /\ ret.out.exc = quick_compare.exc
                 /\ ret.out.reads = quick_compare.reads
                 /\ ret.out.spawns = quick_compare.spawns
           /\ ret.out.spawns \cap AnalysisTools # {} =>
                 Verdict(quick_compare) = "false"
           /\ RawIdentical(x, y) =>
                 /\ Verdict(ret.out) = "true"
                 /\ ret.out.spawns \cap AnalysisTools = {}

C22_Witness ==
    /\ Called("are_equal") /\ ret.args = <<"a", "b">>
    /\ env.h["a"].cls = "ElfFile" /\ env.h["b"].cls = "ElfFile"
    /\ env.h["a"].file.sections = "s1"
    /\ RawIdentical("a", "b")
    /\ Verdict(ret.out) = "true" /\ ret.out.spawns = {}

C22_WitnessSecondStage ==
    /\ Called("are_equal") /\ ret.args = <<"a", "b">>
    /\ env.h["a"].cls = "ElfFile" /\ env.h["b"].cls = "ElfFile"
    /\ env.h["a"].file.body # env.h["b"].file.body
    /\ "readelf" \in ret.out.spawns
    /\ Verdict(ret.out) = "true"

\* --------------------------------------------------- main.py: compare_files

\* The most pairs the comparator yields, in play
MaxPairs == 2

\* distance = None
NoDistance == -1

\* A pair of the generator: whether FileComparator.are_equal holds of it,
\* what compute_distance gives for it, the rank of file1.path among paths
PairsInPlay == [equal : BOOLEAN, distance : 0..MaxTlsh, path : 1..MaxPairs]

\* The sequences of pairs in play, no two pairs of the same file1.path
PairSeqs ==
    {q \in SeqsUpTo(PairsInPlay, MaxPairs) :
        \A i \in 1..Len(q), j \in 1..Len(q) : i # j => q[i].path # q[j].path}

\* The options compare_files reads
MainConfigs ==
    [sort_order : {"none", "path", "distance"}, compute_distance : BOOLEAN,
     min_dist : {-1, 1}]

\* delay_output never set
delay_output_never(cfg) == FALSE

\* delay_output (lines 260-264)
delay_output(cfg) ==
    lower(cfg.sort_order) = "distance" \/ lower(cfg.sort_order) = "path"

\* An entry of edits: (file1.path, file2.path, distance), and the pair it
\* is about
Edit(k, pr, distance) == [pair |-> k, path |-> pr.path, distance |-> distance]

\* One turn of the loop on pair k computing the distance before comparing
compare_pair_eager(e, st, k) ==
    LET pr == e.pairs[k]
        distance == IF e.config.compute_distance THEN pr.distance ELSE NoDistance
        measured == st.log \o (IF e.config.compute_distance
                               THEN << <<"distance", k>> >> ELSE <<>>)
                           \o << <<"are_equal", k>> >>
    IN IF distance # NoDistance /\ distance < e.config.min_dist
       THEN [st EXCEPT !.log = measured, !.i = k + 1]
       ELSE [st EXCEPT !.i = k + 1,
                       !.edits = Append(st.edits, Edit(k, pr, distance)),
                       !.log = IF delay_output(e.config) THEN measured
                               ELSE Append(measured, <<"output", k>>)]

\* One turn of the loop of compare_files, on pair k (lines 268-287)
compare_pair(e, st, k) ==
    LET pr == e.pairs[k]
        compared == Append(st.log, <<"are_equal", k>>)
    IN IF pr.equal THEN [st EXCEPT !.log = compared, !.i = k + 1]
       ELSE LET distance == IF e.config.compute_distance THEN pr.distance
                            ELSE NoDistance
                measured == IF e.config.compute_distance
                            THEN Append(compared, <<"distance", k>>)
                            ELSE compared
            IN IF distance # NoDistance /\ distance < e.config.min_dist
               THEN [st EXCEPT !.log = measured, !.i = k + 1]
               ELSE [st EXCEPT
                       !.i = k + 1,
                       !.edits = Append(st.edits, Edit(k, pr, distance)),
                       !.log = IF delay_output(e.config) THEN measured
                               ELSE Append(measured, <<"output", k>>)]

\* list.sort(key=..., reverse=True): stable, largest key first
RECURSIVE InsertDesc(_, _, _)
InsertDesc(sorted, x, key) ==
    IF sorted = <<>> THEN <<x>>
    ELSE IF Head(sorted)[key] >= x[key]
    THEN <<Head(sorted)>> \o InsertDesc(Tail(sorted), x, key)
    ELSE <<x>> \o sorted

RECURSIVE SortDesc(_, _)
SortDesc(edits, key) ==
    IF edits = <<>> THEN <<>>
    ELSE InsertDesc(SortDesc(SubSeq(edits, 1, Len(edits) - 1), key),
                    edits[Len(edits)], key)

\* The calls of output_change for the edits, in their order
OutputAll(edits) == [n \in 1..Len(edits) |-> <<"output", edits[n].pair>>]

\* Lines 289-298: sort, then print what was delayed.  Sorting two edits
\* whose distance is None raises TypeError.
sort_and_output(e, st) ==
    LET order == lower(e.config.sort_order)
    IN IF order = "distance" /\ ~e.config.compute_distance /\ Len(st.edits) > 1
       THEN [st EXCEPT !.pc = "raised"]
       ELSE LET edits == IF order \in {"distance", "path"}
                         THEN SortDesc(st.edits, order) ELSE st.edits
                sorted == IF order \in {"distance", "path"}
                          THEN Append(st.log, <<"sort", 0>>) ELSE st.log
            IN [st EXCEPT !.pc = "added", !.edits = edits,
                          !.log = IF delay_output(e.config)
                                  THEN sorted \o OutputAll(edits) ELSE sorted]

InitMain ==
    /\ MainIdle
    /\ \E ps \in PairSeqs, cfg \in MainConfigs, added \in 0..1, removed \in 0..1 :
          env = [pairs |-> ps, config |-> cfg, added |-> added, removed |-> removed]
    /\ ret = [op |-> "compare_files", pc |-> "loop", i |-> 1,
              edits |-> <<>>, log |-> <<>>]

\* for file1, file2 in pairs: one turn
ComparePair ==
    /\ ret.pc = "loop" /\ ret.i <= Len(env.pairs)
    /\ ret' = compare_pair(env, ret, ret.i)
    /\ UNCHANGED <<mainvars, env>>

\* The generator is exhausted: sort and print
SortAndOutput ==
    /\ ret.pc = "loop" /\ ret.i > Len(env.pairs)
    /\ ret' = sort_and_output(env, ret)
    /\ UNCHANGED <<mainvars, env>>

\* for added in comparator.added_files (lines 301-304)
OutputAdded ==
    /\ ret.pc = "added"
    /\ ret' = [ret EXCEPT !.pc = "removed",
                 !.log = @ \o [n \in 1..env.added |-> <<"Added", n>>]]
    /\ UNCHANGED <<mainvars, env>>

\* for removed in comparator.removed_files (lines 306-309)
OutputRemoved ==
    /\ ret.pc = "removed"
    /\ ret' = [ret EXCEPT !.pc = "done",
                 !.log = @ \o [n \in 1..env.removed |-> <<"Removed", n>>]]
    /\ UNCHANGED <<mainvars, env>>

NextMain == ComparePair \/ SortAndOutput \/ OutputAdded \/ OutputRemoved

SpecMain == InitMain /\ [][NextMain]_vars

\* --------------------------------------------------- claims on compare_files

Running == ret # <<>> /\ ret.op = "compare_files"

\* The positions of event ev in the log
At(ev) == {p \in 1..Len(ret.log) : ret.log[p] = ev}

\* C23: in compare_files the distance of a pair is computed after its
\* equality check, and only when that check returned false; a pair found
\* equal has no output record; each pair is checked once.
C23_EqualityBeforeDistance ==
    Running =>
        \A k \in 1..Len(env.pairs) :
            /\ Cardinality(At(<<"are_equal", k>>)) <= 1
            /\ \A p \in At(<<"distance", k>>) :
                  /\ ~env.pairs[k].equal
                  /\ \E q \in At(<<"are_equal", k>>) : q < p
            /\ env.pairs[k].equal =>
                  At(<<"output", k>>) = {} /\ At(<<"distance", k>>) = {}

C23_Witness ==
    /\ Running /\ ret.pc = "done" /\ Len(env.pairs) = 2
    /\ env.pairs[1].equal /\ ~env.pairs[2].equal
    /\ At(<<"distance", 2>>) # {} /\ At(<<"output", 2>>) # {}

\* C24: ordering by path or by distance, no pair record is emitted before
\* every pair has been compared and the records sorted; with no ordering the
\* record of a pair is emitted before the next pair is compared; in every
\* mode the pair records precede the Added and Removed records.
C24_OutputOrder ==
    Running =>
        \A p \in 1..Len(ret.log) :
            /\ ret.log[p][1] = "output" =>
                  LET k == ret.log[p][2]
                  IN IF env.config.sort_order \in {"path", "distance"}
                     THEN /\ \A j \in 1..Len(env.pairs) :
                                \E q \in At(<<"are_equal", j>>) : q < p
                          /\ \E q \in At(<<"sort", 0>>) : q < p
                     ELSE \A q \in 1..Len(ret.log) :
                              (ret.log[q][1] = "are_equal" /\ ret.log[q][2] > k)
                                  => q > p
            /\ ret.log[p][1] \in {"Added", "Removed"} =>
                  \A q \in 1..Len(ret.log) : ret.log[q][1] = "output" => q < p

C24_Witness ==
    /\ Running /\ ret.pc = "done" /\ Len(env.pairs) = 2
    /\ env.config.sort_order = "path"
    /\ env.pairs[1].path < env.pairs[2].path
    /\ At(<<"output", 1>>) # {} /\ At(<<"output", 2>>) # {}
    /\ \A p \in At(<<"output", 2>>), q \in At(<<"output", 1>>) : p < q
    /\ env.added = 1 /\ env.removed = 1

C24_WitnessStreaming ==
    /\ Running /\ ret.pc = "loop" /\ ret.i = 2 /\ Len(env.pairs) = 2
    /\ env.config.sort_order = "none"
    /\ At(<<"output", 1>>) # {}

\* ------------------------------------------------------- claims on memoizing

CachedProperties == {"common", "missing", "new", "moved", "removed", "added"}

\* C25: once computed, each of Common, Missing, New, the moved pairs, Added
\* and Removed keeps its value through every later call and every change of
\* the configuration, and what move detection read and computed is never
\* replaced: it runs at most once.
C25_ComputedOnce ==
    [][/\ \A k \in CachedProperties :
             cache[k] # <<>> => cache'[k] = cache[k]
       /\ hist.threshold # <<>> => hist' = hist]_vars

C25_Witness ==
    /\ cache.moved # <<>> /\ cache.moved[1] # <<>>
    /\ cache.added # <<>> /\ cache.removed # <<>>
    /\ hist.threshold # <<>> /\ hist.threshold[1] # config.fuzzy_threshold
    /\ fuzzy_disabled
    /\ pairs.phase = "new" /\ pairs.out = <<>>

\* ---------------------------------------------------- claims on the counts

\* What get_files_to_compare logs (lines 75-81): new_count - moved_count
\* and missing_count - moved_count
LoggedAdded == Cardinality(cache.new[1]) - Len(cache.moved[1])
LoggedRemoved == Cardinality(cache.missing[1]) - Len(cache.moved[1])

\* C27: the counts get_files_to_compare logs are those of added_files and
\* removed_files.
C27_LoggedCounts ==
    (/\ pairs # NoGen
     /\ cache.added # <<>> /\ cache.removed # <<>>) =>
        /\ Cardinality(cache.added[1]) = LoggedAdded
        /\ Cardinality(cache.removed[1]) = LoggedRemoved

\* ------------------------------------------- claims on recursive extraction

\* The events of one kind in what the last extract did, by position
EventsOf(kind) == {i \in 1..Len(ret.events) : ret.events[i].ev = kind}

\* A file handed to _extract at some depth
Offer(it, depth) == [path |-> it.path, node |-> it.node, depth |-> depth]

\* What came out of the file the unpack event at position i is about
ExtractedAt(i) ==
    LET h == ret.events[i].handle
    IN unpack(Item(h.found, h.node), extract_folder(h.found))

\* The files extract was handed at depth 0
SourceItems == IF RootItem(env).node.kind = "dir" THEN _walk(env)
               ELSE <<RootItem(env)>>

\* Every time _extract was handed a file: <<0, j>> is the j-th source file,
\* <<i, j>> the j-th file that came out of the unpack at position i
Offers ==
    {<<0, j>> : j \in 1..Len(SourceItems)}
    \cup UNION {{<<i, j>> : j \in 1..Len(ExtractedAt(i))} : i \in EventsOf("unpack")}

OfferAt(k) ==
    IF k[1] = 0 THEN Offer(SourceItems[k[2]], 0)
    ELSE Offer(ExtractedAt(k[1])[k[2]], ret.events[k[1]].depth + 1)

\* How many times _extract was handed this file at this depth
Times(x) == Cardinality({k \in Offers : OfferAt(k) = x})

\* How many events of one kind there are for this file at this depth
CountOf(kind, x) ==
    Cardinality({i \in EventsOf(kind) :
                    /\ ret.events[i].handle.found = x.path
                    /\ ret.events[i].handle.node = x.node
                    /\ ret.events[i].depth = x.depth})

\* A file handed to _extract is unpacked or yielded as its depth and its
\* kind tell: nothing when it is excluded; never unpacked when it is a link
\* or too deep, and then yielded once; unpacked once otherwise, and then
\* yielded once exactly when nothing came out of it
Settled(x) ==
    LET skipped == \/ x.node.kind = "link"
                   \/ env.max_depth >= 0 /\ x.depth > env.max_depth
    IN  IF is_excluded(env, x.path, x.node)
        THEN CountOf("unpack", x) = 0 /\ CountOf("yield", x) = 0
        ELSE IF skipped
        THEN CountOf("unpack", x) = 0 /\ CountOf("yield", x) = Times(x)
        ELSE /\ CountOf("unpack", x) = Times(x)
             /\ CountOf("yield", x) =
                    IF x.node.children = <<>> THEN Times(x) ELSE 0

\* C26: the unpacker is never invoked on a symlink nor, when max_depth >= 0,
\* on a file deeper than max_depth; such a file is yielded as a plain
\* handle, and every file that is not excluded, be it a source file or one
\* that came out of an unpacked file, is either replaced by what came out of
\* it or yielded itself exactly once.
C26_UnpackGuard ==
    Called("extract") =>
        /\ \A i \in EventsOf("unpack") :
              /\ ret.events[i].handle.node.kind # "link"
              /\ env.max_depth >= 0 => ret.events[i].depth <= env.max_depth
        /\ \A k \in Offers : Settled(OfferAt(k))
        /\ \A i \in EventsOf("unpack") \cup EventsOf("yield") :
              \E k \in Offers :
                  OfferAt(k) = Offer(Item(ret.events[i].handle.found,
                                          ret.events[i].handle.node),
                                     ret.events[i].depth)

\* C26 witness: with max_depth 0, an archive that came out of an unpacked
\* archive was yielded without being unpacked, and a link was yielded
C26_Witness ==
    /\ Called("extract")
    /\ env.max_depth = 0
    /\ \E i \in EventsOf("yield") :
          /\ ret.events[i].depth = 1
          /\ ret.events[i].handle.node.children # <<>>
    /\ \E i \in EventsOf("yield") : ret.events[i].handle.node.kind = "link"
    /\ EventsOf("unpack") # {}

\* C26 witness: without a limit on the depth, an archive of an archive was
\* unpacked down to its plain file
C26_WitnessUnlimited ==
    /\ Called("extract")
    /\ env.max_depth = -1
    /\ \E i \in EventsOf("unpack") : ret.events[i].depth = 1
    /\ \E i \in EventsOf("yield") : ret.events[i].depth = 2


\* ---------------------------------------- claims on the removal of containers

\* The paths of the "remove" events come from the file the event is about
RemovedPath(i) == ret.events[i].handle.found

\* C30 but for its last part: extraction removes no file under the source
\* folder, and removes a file only when clean_extracted is set, something
\* was extracted from it and it lies outside the source folder.
C30_RemovesOnlyEmptiedCopies ==
    Called("extract") =>
        \A i \in EventsOf("remove") :
            /\ ~IsUnder(RemovedPath(i), source_folder)
            /\ env.clean_extracted
            /\ ret.events[i].handle.node.children # <<>>

\* C30: extraction removes no file under the source folder, whatever
\* clean_extracted; a container is removed only if clean_extracted is set,
\* something was extracted from it and it lies outside the source folder;
\* and no file is removed after a handle on it was yielded.
C30_DeleteGuard ==
    Called("extract") =>
        \A i \in EventsOf("remove") :
            /\ ~IsUnder(RemovedPath(i), source_folder)
            /\ env.clean_extracted
            /\ ret.events[i].handle.node.children # <<>>
            /\ \A j \in EventsOf("yield") :
                  j < i => ret.events[j].handle.path # RemovedPath(i)

\* A container that came out of a source file was removed, while the source
\* file itself, a container too, was kept
C30_Witness ==
    /\ Called("extract")
    /\ EventsOf("remove") # {}
    /\ \E i \in EventsOf("unpack") :
          /\ IsUnder(ret.events[i].handle.found, source_folder)
          /\ ret.events[i].handle.node.children # <<>>


\* -------------------------------------------- claims on what a run may draw

\* What move detection gives, run from the present state with what it draws
\* from outside: the moved pairs as (missing file, path of the file it was
\* matched to), in the order of the list, and the Added and Removed sets
MoveOutcome(t, e) ==
    Bind(added_files(St, t, e), LAMBDA a :
    Bind(removed_files(a, t, e), LAMBDA r :
         [moved |-> [i \in 1..Len(r.cache.moved[1]) |->
                        <<r.cache.moved[1][i][1],
                          r.obj[r.cache.moved[1][i][2]].path>>],
          added |-> a.cache.added[1],
          removed |-> r.cache.removed[1]]))

\* C28: move detection is deterministic: with the same file sets, the same
\* distances and the same threshold, the moved pairs, Added and Removed do
\* not depend on the order random.shuffle leaves the candidates in.
C28_ShuffleIndependent ==
    (cache.moved = <<>> /\ ~fuzzy_disabled) =>
        \A t \in TypeOracles :
            Bind(MoveOracles(St, t), LAMBDA draws :
            Bind({e.shuffle : e \in draws}, LAMBDA shuffles :
                \A e \in draws : \A sh \in shuffles :
                    MoveOutcome(t, e) = MoveOutcome(t, [e EXCEPT !.shuffle = sh])))


\* --------------------------------------- helpers/config.py: the list options

\* How many Config objects are built in a run of the model
MaxBuilt == 3

\* The options whose default is a list, in the order of Config.__sections
ListKeys == <<"exclude_mime", "blacklist", "exclude", "compressed_file_types">>
ListKeySet == {ListKeys[i] : i \in DOMAIN ListKeys}

\* The section of Config.__sections an option is in
SectionOf(key) ==
    IF key = "exclude_mime" THEN "diff"
    ELSE IF key = "compressed_file_types" THEN "ExpertSettings"
    ELSE "unpack"

\* A value that may be missing (None, no such option) or a list / a text
Absent == [some |-> FALSE, v |-> <<>>]
Opt(v) == [some |-> TRUE, v |-> v]

\* The class-level table when the module is loaded: every list is []
SectionsAtLoad == [key \in ListKeySet |-> <<>>]

\* ", ".join(value): the text as its items and the separators between them
RECURSIVE Join(_)
Join(value) ==
    IF Len(value) <= 1 THEN value
    ELSE <<Head(value), ", ">> \o Join(Tail(value))

\* read_list_from_config(config_file, section, key): the items between the
\* commas of the text stored there, stripped; [] when there is no such
\* option or the text is empty
read_list_from_config(text) ==
    IF ~text.some \/ text.v = <<>> THEN <<>>
    ELSE SelectSeq(text.v, LAMBDA tok : tok \notin {",", ", "})

\* The list branch of Config._merge_values: the value handed to _set, which
\* is the list of the class-level table itself, grown in place
_merge_list(default_value, arg_value, text) ==
    default_value \o (IF arg_value.some THEN arg_value.v ELSE <<>>)
                  \o read_list_from_config(text)

\* Config._set(section, key, value) on the list options of a Config object:
\* attrs are its attributes, stored the texts of its sections
_set(cfg, key, value) ==
    [attrs |-> IF SectionOf(key) = "diff"
               THEN [cfg.attrs EXCEPT ![key] = Opt(value)] ELSE cfg.attrs,
     stored |-> [cfg.stored EXCEPT ![key] = Opt(Join(value))]]

\* A Config object after self.read(config_file): no attribute yet, the
\* texts of the file
AfterRead(file) == [attrs |-> [key \in {"exclude_mime"} |-> Absent], stored |-> file]

\* Config._merge over the list options, from the i-th on: the class-level
\* table and the object, once every option has gone through _merge_values
RECURSIVE _merge(_, _, _, _)
_merge(sections, cfg, arguments, i) ==
    IF i > Len(ListKeys) THEN [sections |-> sections, cfg |-> cfg]
    ELSE LET key == ListKeys[i]
             value == _merge_list(sections[key], arguments[key], cfg.stored[key])
         IN _merge([sections EXCEPT ![key] = value], _set(cfg, key, value),
                   arguments, i + 1)

\* Config(arguments) with the class-level table as it is
ConfigInit(sections, arguments, file) ==
    _merge(sections, AfterRead(file), arguments, 1)

\* Config.update(key, value): the object, or ValueError for an unknown key
update(cfg, key, value) ==
    IF key \in ListKeySet THEN [exc |-> NoExc, cfg |-> _set(cfg, key, value)]
    ELSE [exc |-> "ValueError", cfg |-> cfg]

\* The arguments in play: --exclude-mime, --blacklist and --exclude given or
\* not (there is no argument for compressed_file_types); the config files
ListArguments ==
    {a \in [ListKeySet -> {Absent, Opt(<<"p">>)}] :
        a["compressed_file_types"] = Absent}
ListConfigFiles ==
    {f \in [ListKeySet -> {Absent, Opt(<<"q">>), Opt(<<"q", ",", "r">>)}] :
        f["blacklist"] = f["exclude"]}

NoConfig == [attrs |-> [key \in {"exclude_mime"} |-> Absent],
             stored |-> [key \in ListKeySet |-> Absent]]

\* env: the arguments and the config file every Config is built from.
\* ret: the class-level table, how many Config objects were built, the
\* first one and the last one as they were when built, and the last one as
\* it is now
InitDefaults ==
    /\ MainIdle
    /\ \E arguments \in ListArguments, file \in ListConfigFiles :
          env = [arguments |-> arguments, file |-> file]
    /\ ret = [op |-> "load", exc |-> NoExc, sections |-> SectionsAtLoad,
              built |-> 0, first |-> NoConfig, last |-> NoConfig,
              config |-> NoConfig]

\* config = Config(arguments)
NewConfig ==
    /\ ret.built < MaxBuilt
    /\ \E r \in {ConfigInit(ret.sections, env.arguments, env.file)} :
          ret' = [op |-> "Config", exc |-> NoExc, sections |-> r.sections,
                  built |-> ret.built + 1,
                  first |-> IF ret.built = 0 THEN r.cfg ELSE ret.first,
                  last |-> r.cfg, config |-> r.cfg]
    /\ UNCHANGED <<mainvars, env>>

\* config.update(key, value)
UpdateConfig ==
    /\ ret.built > 0
    /\ \E key \in ListKeySet \cup {"nokey"}, value \in {<<>>, <<"u">>} :
          \E r \in {update(ret.config, key, value)} :
              ret' = [ret EXCEPT !.op = "update", !.exc = r.exc, !.config = r.cfg]
    /\ UNCHANGED <<mainvars, env>>

NextDefaults == NewConfig \/ UpdateConfig

SpecDefaults == InitDefaults /\ [][NextDefaults]_vars

\* C29: building a Config or calling update never modifies the class-level
\* table of default values, and a Config built from the same arguments and
\* config file gets the same list options as the first one built.
C29_DefaultsUntouched ==
    /\ ret.sections = SectionsAtLoad
    /\ ret.built >= 1 => ret.last = ret.first

\* Config.update leaves the class-level table as it is
C29_UpdateKeepsTable ==
    [][UpdateConfig => ret'.sections = ret.sections]_vars

====
